---- MODULE Spec2Model ----
(***************************************************************************)
(* Team lifecycle orchestration of the MMHelfer cog (src/mm_module.py):    *)
(* the create / edit / delete workflows over the external directory        *)
(* service, the JSON team registry, the permission-overwrite resolver and  *)
(* the rate-limit retry helper.                                            *)
(***************************************************************************)
EXTENDS Integers, Sequences, FiniteSets, TLC

(***************************************************************************)
(* Bounds of the model (not program constants).                            *)
(***************************************************************************)
MaxOps == 2          \* workflows started in one behaviour
MaxFaults == 2       \* failing calls and failing file writes in one behaviour
MaxStages == 2       \* stages one edit changeset asks for
MaxHint == 3         \* largest server-indicated retry-after value tried
MaxBaseDelay == 2    \* largest base_delay argument tried

(***************************************************************************)
(* Program constants.                                                      *)
(***************************************************************************)
MAX_RETRIES_DEFAULT == 5     \* handle_rate_limit(max_retries=5)
MAX_CHANNEL_NAME == 100      \* the [:100] slices on channel names

None == 0                    \* Python None / a missing dict key

(***************************************************************************)
(* The universe: team types, team names (as character sequences), members, *)
(* and the guild's configured roles and categories.                        *)
(***************************************************************************)
Types == {"Community", "Competitive"}

TeamNames == {<<"a">>, <<"b", " ", "c">>}

Members == {1, 2}

\* ui.UserSelect(max_values=7); `len(self.current_member_ids) >= 7`
MAX_TEAM_SIZE == 7

\* The guild of the roster runs: enough members to fill a team and one more.
GuildSize == 8

\* The rosters a team is created with: `members` as TeamCreateView.create_button
\* passes it on (the captain already appended) and the captain, if any.
Rosters ==
    {[members |-> {}, captain |-> None],
     [members |-> {2}, captain |-> None],
     [members |-> {1}, captain |-> 1],
     [members |-> {1, 2}, captain |-> 1]}

Procs == {1}

\* Ids of the guild objects that exist independently of any team.
Ids == [everyone |-> 10, teamsuche |-> 31, clan |-> 32, captain |-> 33,
        community_category |-> 41, competitive_category |-> 42,
        first_fresh |-> 100]

RoleKeys == {"Co-Lead", "Discord Admin", "Member Management", "Erstelle Team Rolle",
             "Coach", "Caster", "Co-Caster", "Rookie Caster", "Competitive Team",
             "Community Team", "Rocket League", "Ehrenmember", "Mafia"}

StaffRoleId ==
    [k \in RoleKeys |->
        CASE k = "Co-Lead" -> 11 [] k = "Discord Admin" -> 12
          [] k = "Member Management" -> 13 [] k = "Erstelle Team Rolle" -> 14
          [] k = "Coach" -> 15 [] k = "Caster" -> 16 [] k = "Co-Caster" -> 17
          [] k = "Rookie Caster" -> 18 [] k = "Competitive Team" -> 19
          [] k = "Community Team" -> 20 [] k = "Rocket League" -> 21
          [] k = "Ehrenmember" -> 22 [] k = "Mafia" -> 23]

\* Roles and categories that are live in the guild whatever the workflows do.
StaticRoles == {Ids.everyone, Ids.teamsuche, Ids.clan, Ids.captain}
                 \cup {StaffRoleId[k] : k \in RoleKeys}

Categories == {Ids.community_category, Ids.competitive_category}

\* mmhelfer_main_config.json as loaded into self.main_config.
FullConfig ==
    [roles |-> StaffRoleId,
     community_category_id |-> Ids.community_category,
     competitive_category_id |-> Ids.competitive_category,
     teamsuche_role_id |-> Ids.teamsuche,
     clan_member_role_id |-> Ids.clan,
     captain_role_id |-> Ids.captain]

\* A configuration whose Competitive category was never set up.
NoCompetitiveCategoryConfig == [FullConfig EXCEPT !.competitive_category_id = None]

Configs == {FullConfig, NoCompetitiveCategoryConfig}

(***************************************************************************)
(* Python helpers: dicts, lists, strings.                                  *)
(***************************************************************************)
EmptyDict == <<>>

DictPut(d, k, v) == [x \in (DOMAIN d) \cup {k} |-> IF x = k THEN v ELSE d[x]]

DictDel(d, k) == [x \in (DOMAIN d) \ {k} |-> d[x]]

InList(x, list) == \E i \in 1..Len(list) : list[i] = x

RECURSIVE ListWithout(_, _)
\* [mid for mid in list if mid != x]
ListWithout(list, x) ==
    IF list = <<>> THEN <<>>
    ELSE IF Head(list) = x THEN ListWithout(Tail(list), x)
         ELSE <<Head(list)>> \o ListWithout(Tail(list), x)

RECURSIVE ListRemoveFirst(_, _)
\* list.remove(x)
ListRemoveFirst(list, x) ==
    IF list = <<>> THEN <<>>
    ELSE IF Head(list) = x THEN Tail(list)
         ELSE <<Head(list)>> \o ListRemoveFirst(Tail(list), x)

ListSet(list) == {list[i] : i \in 1..Len(list)}

RECURSIVE SetToList(_)
SetToList(S) ==
    IF S = {} THEN <<>>
    ELSE LET m == CHOOSE x \in S : \A y \in S : x <= y
         IN <<m>> \o SetToList(S \ {m})

\* str.replace(" ", "-")
SpacesToDashes(str) == [i \in 1..Len(str) |-> IF str[i] = " " THEN "-" ELSE str[i]]

\* str.replace(" ", "")
RemoveSpaces(str) == SelectSeq(str, LAMBDA c : c # " ")

\* str[:100]
Truncate(str) ==
    IF Len(str) <= MAX_CHANNEL_NAME THEN str ELSE SubSeq(str, 1, MAX_CHANNEL_NAME)

(***************************************************************************)
(* _get_permission_overwrites (src/mm_module.py:1419-1631).                *)
(***************************************************************************)
Allow == "allow"
Deny == "deny"
Unset == "unset"

\* PermissionOverwrite(**kwargs): every flag not given stays unset.
Perm(view, send, connect, manage, move) ==
    [view_channel |-> view, send_messages |-> send, connect |-> connect,
     manage_channels |-> manage, move_members |-> move]

ViewSend == Perm(Allow, Allow, Unset, Unset, Unset)
ViewSendManage == Perm(Allow, Allow, Unset, Allow, Unset)
ViewConnect == Perm(Allow, Unset, Allow, Unset, Unset)
ViewConnectManage == Perm(Allow, Unset, Allow, Allow, Unset)
ViewConnectMove == Perm(Allow, Unset, Allow, Unset, Allow)
ViewNoConnect == Perm(Allow, Unset, Deny, Unset, Unset)

\* The staff entries of one (team type, channel class), in source order.
TextEntries ==
    << <<"Co-Lead", ViewSend>>, <<"Discord Admin", ViewSendManage>>,
       <<"Member Management", ViewSendManage>>, <<"Erstelle Team Rolle", ViewSend>> >>

VoiceTail ==
    << <<"Coach", ViewConnect>>, <<"Caster", ViewConnect>>, <<"Co-Caster", ViewConnect>>,
       <<"Rookie Caster", ViewConnect>>, <<"Erstelle Team Rolle", ViewConnectMove>>,
       <<"Competitive Team", ViewConnect>>, <<"Community Team", ViewConnect>>,
       <<"Rocket League", ViewNoConnect>>, <<"Ehrenmember", ViewConnect>>,
       <<"Mafia", ViewConnect>> >>

VoiceCommunityEntries ==
    << <<"Co-Lead", ViewConnect>>, <<"Discord Admin", ViewConnectManage>>,
       <<"Member Management", ViewConnectManage>> >> \o VoiceTail

VoiceCompetitiveEntries ==
    << <<"Co-Lead", ViewConnectManage>>, <<"Discord Admin", ViewConnectManage>>,
       <<"Member Management", ViewConnectManage>> >> \o VoiceTail

PrivateVoiceEntries ==
    << <<"Co-Lead", ViewConnectManage>>, <<"Discord Admin", ViewConnectManage>>,
       <<"Member Management", ViewConnectManage>>, <<"Caster", ViewConnect>>,
       <<"Co-Caster", ViewConnect>>, <<"Rookie Caster", ViewNoConnect>>,
       <<"Mafia", ViewConnect>>, <<"Erstelle Team Rolle", ViewConnectMove>> >>

StaffEntries(team_type, channel_type_detail) ==
    CASE team_type = "Community" /\ channel_type_detail = "text" -> TextEntries
      [] team_type = "Community" /\ channel_type_detail = "voice_community" -> VoiceCommunityEntries
      [] team_type = "Competitive" /\ channel_type_detail = "text" -> TextEntries
      [] team_type = "Competitive" /\ channel_type_detail = "voice_competitive" -> VoiceCompetitiveEntries
      [] team_type = "Competitive" /\ channel_type_detail = "private_voice_competitive" -> PrivateVoiceEntries
      [] OTHER -> <<>>

TeamRolePermViewOnly(team_type, channel_type_detail) == Perm(Allow, Unset, Unset, Unset, Unset)

\* The team role's own overwrite: view, plus send on text or connect and move on voice.
TeamRolePerm(team_type, channel_type_detail) ==
    IF StaffEntries(team_type, channel_type_detail) = <<>>
    THEN Perm(Allow, Unset, Unset, Unset, Unset)
    ELSE IF channel_type_detail = "text"
         THEN Perm(Allow, Allow, Unset, Unset, Unset)
         ELSE Perm(Allow, Unset, Allow, Unset, Allow)

\* get_role_from_main_cfg(key): the configured id when it names a live role.
RoleFromMainCfg(cfg, live_roles, key) ==
    IF cfg.roles[key] # None /\ cfg.roles[key] \in live_roles THEN cfg.roles[key] ELSE None

RECURSIVE ApplyEntries(_, _, _, _)
\* `if role := get_role_from_main_cfg(key): overwrites[role] = PermissionOverwrite(...)`
ApplyEntries(overwrites, entries, cfg, live_roles) ==
    IF entries = <<>> THEN overwrites
    ELSE LET role == RoleFromMainCfg(cfg, live_roles, Head(entries)[1])
             next == IF role = None THEN overwrites
                     ELSE DictPut(overwrites, role, Head(entries)[2])
         IN ApplyEntries(next, Tail(entries), cfg, live_roles)

GetPermissionOverwritesNoDefault(cfg, live_roles, team_role, team_type, channel_type_detail) ==
    ApplyEntries(DictPut(EmptyDict, team_role, TeamRolePerm(team_type, channel_type_detail)),
                 StaffEntries(team_type, channel_type_detail), cfg, live_roles)

\* overwrites = {guild.default_role: PermissionOverwrite(view_channel=False)}, the
\* team role's entry, then the staff entries of the branch.
GetPermissionOverwrites(cfg, live_roles, team_role, team_type, channel_type_detail) ==
    LET base == DictPut(DictPut(EmptyDict, Ids.everyone,
                                Perm(Deny, Unset, Unset, Unset, Unset)),
                        team_role, TeamRolePerm(team_type, channel_type_detail))
    IN ApplyEntries(base, StaffEntries(team_type, channel_type_detail), cfg, live_roles)

(***************************************************************************)
(* handle_rate_limit (src/mm_module.py:81-125), attempt by attempt.        *)
(***************************************************************************)
RECURSIVE Pow2(_)
Pow2(n) == IF n = 0 THEN 1 ELSE 2 * Pow2(n - 1)

\* A response of the wrapped action: success, a 429 with or without a
\* retry_after attribute, another HTTP status, or a non-HTTP exception.
Responses ==
    {[kind |-> "ok", has_hint |-> FALSE, retry_after |-> 0],
     [kind |-> "rl", has_hint |-> FALSE, retry_after |-> 0],
     [kind |-> "http", has_hint |-> FALSE, retry_after |-> 0],
     [kind |-> "exc", has_hint |-> FALSE, retry_after |-> 0]}
    \cup {[kind |-> "rl", has_hint |-> TRUE, retry_after |-> h] : h \in 1..MaxHint}

\* retry_after = e.retry_after if hasattr(e, 'retry_after') else base_delay * (2 ** attempt)
RetryAfterDoubled(resp, base_delay, attempt) ==
    IF resp.has_hint THEN resp.retry_after ELSE base_delay * 2 * attempt

RetryAfter(resp, base_delay, attempt) ==
    IF resp.has_hint THEN resp.retry_after ELSE base_delay * Pow2(attempt)

\* `except discord.errors.HTTPException as e: if e.status == 429:`
IsRateLimitedOrHttp(resp) == resp.kind \in {"rl", "http"}

IsRateLimited(resp) == resp.kind = "rl"

\* `if attempt == max_retries - 1: raise` after the sleep
IsLastAttempt(attempt, max_retries) == attempt = max_retries - 1

\* The outcome a caller of handle_rate_limit sees when the wrapped action is
\* answered 429 `n429` times and then with `final`.
HandleRateLimit(n429, final) ==
    IF n429 >= MAX_RETRIES_DEFAULT THEN "http" ELSE final

\* The answers to an external call awaited directly; a 429 is an HTTPException
\* like any other status and is caught, or not, as such.
ApiResponses == {"ok", "rl", "http", "exc"}
FinalResponses == {"ok", "http", "exc"}

(***************************************************************************)
(* load_json / save_json (src/mm_module.py:50-79).                         *)
(***************************************************************************)
\* open(..., 'w') + json.dump with every error swallowed: the file holds the
\* data, or open() failed and the file keeps its old content.
IoOutcomes == {"ok", "ioerror"}

SaveJson(old, data, io) == IF io = "ok" THEN data ELSE old

\* What a caller sees from `await handle_rate_limit(lambda: call)`.
WrappedOutcomes ==
    {HandleRateLimit(n, f) : n \in {0, 1, MAX_RETRIES_DEFAULT}, f \in FinalResponses}

VARIABLES
    rl,           \* one invocation of handle_rate_limit
    roles,        \* live team roles of the guild: id -> [name, hoist]
    channels,     \* live team channels: id -> [kind, name, category, overwrites]
    memberRoles,  \* member id -> ids of the roles the member holds
    nextId,       \* next id the service hands out
    main_config,  \* self.main_config
    teams,        \* self.community_teams / self.competitive_teams, by type
    lft_members,  \* self.lft_members
    files,        \* the JSON files: the two team partitions and the teamsuche list
    wf,           \* the locals of each running workflow
    ops,          \* workflows started so far
    faults,       \* failing calls and writes so far
    clan_members, \* self.clan_members
    sync,         \* on_ready and the calls that maintain the two role lists
    pw            \* one call of _get_permission_overwrites

wfVars == <<roles, channels, memberRoles, nextId, main_config, teams,
            lft_members, files, wf, ops, faults, clan_members, sync, pw>>

vars == <<rl, roles, channels, memberRoles, nextId, main_config, teams,
          lft_members, files, wf, ops, faults, clan_members, sync, pw>>

\* guild.members
GuildMembers == DOMAIN memberRoles

LiveRoles == StaticRoles \cup DOMAIN roles

\* guild.get_role(id) / guild.get_channel(id): the id when it is live, else None
GetRole(id) == IF id # None /\ id \in LiveRoles THEN id ELSE None
GetChannel(id) == IF id # None /\ id \in DOMAIN channels THEN id ELSE None

\* _get_role_from_config and its four users (src/mm_module.py:1283-1308)
GetTeamsucheRole == GetRole(main_config.teamsuche_role_id)
GetCaptainRole == GetRole(main_config.captain_role_id)
GetGenericTeamTypeRole(team_type) ==
    GetRole(main_config.roles[IF team_type = "Community" THEN "Community Team"
                              ELSE "Competitive Team"])

\* self.main_config.get(f"{team_type.lower()}_category_id") resolved to a CategoryChannel
GetCategory(team_type) ==
    LET id == IF team_type = "Community" THEN main_config.community_category_id
              ELSE main_config.competitive_category_id
    IN IF id # None /\ id \in Categories THEN id ELSE None

\* The latest external call of a workflow: what was called, whether through
\* handle_rate_limit, how it was answered, whether an asyncio.sleep followed it,
\* and whether it was issued right after a successful call that no sleep followed.
NoCall == [call |-> "none", wrapped |-> FALSE, resp |-> "ok", slept |-> FALSE,
           unpaced |-> FALSE]

IdleLocals ==
    [pc |-> "idle", op |-> "none", result |-> "none",
     team_name |-> <<>>, team_type |-> "Community", members |-> {}, captain |-> None,
     created_role |-> None, created_channels |-> <<>>, idx |-> 0,
     todo |-> {}, cur |-> None, member_ids_for_json |-> <<>>,
     team_data |-> <<>>, all_successful |-> TRUE, team_role_obj |-> None,
     changes |-> <<>>, working_data |-> <<>>, stage |-> 0,
     current_team_name |-> <<>>, current_team_type |-> "Community",
     \* current_config_dict of a delete once self.*_teams was rebound by another
     \* workflow: the dict it still refers to
     detached |-> FALSE, stale_dict |-> <<>>,
     \* bookkeeping for the properties, not program state
     start_files |-> <<>>, start_lft |-> <<>>, start_roles |-> <<>>,
     start_channels |-> <<>>, start_memberRoles |-> <<>>,
     made |-> {}, stages |-> {}, failed |-> {}, stage_raised |-> FALSE,
     persisted |-> FALSE, found |-> FALSE, last |-> NoCall]

\* No call of the resolver is under way.
PwIdle == [pc |-> "unused", cfg |-> FullConfig, add_r_ids |-> <<>>,
           team_type |-> "Community", channel_type |-> "text", team_role |-> None,
           base |-> EmptyDict, out |-> EmptyDict]

\* on_ready and the list commands are not part of the run.
SyncIdle == [pc |-> "unused", start |-> <<>>, log |-> <<>>]

WfInit ==
    /\ roles = EmptyDict
    /\ channels = EmptyDict
    /\ nextId = Ids.first_fresh
    /\ main_config \in Configs
    /\ \E holders \in SUBSET {1} :
          /\ memberRoles = [m \in Members |->
                              IF m \in holders /\ main_config.teamsuche_role_id # None
                              THEN {Ids.teamsuche} ELSE {}]
          /\ lft_members = SetToList(holders)
          /\ files = [Community |-> EmptyDict, Competitive |-> EmptyDict,
                      Teamsuche |-> SetToList(holders), Clanmember |-> <<>>]
    /\ teams = [Community |-> EmptyDict, Competitive |-> EmptyDict]
    /\ wf = [p \in Procs |-> IdleLocals]
    /\ ops = 0
    /\ faults = 0
    /\ clan_members = <<>> /\ sync = SyncIdle /\ pw = PwIdle

RLIdle == [pc |-> "unused", max_retries |-> MAX_RETRIES_DEFAULT, base_delay |-> 1,
           attempt |-> 0, responses |-> <<>>, waits |-> <<>>, pending |-> 0]

RLInit ==
    /\ \E mr \in 1..MAX_RETRIES_DEFAULT, bd \in 1..MaxBaseDelay :
        rl = [pc |-> "call", max_retries |-> mr, base_delay |-> bd,
              attempt |-> 0, responses |-> <<>>, waits |-> <<>>,
              pending |-> 0]
    /\ roles = EmptyDict /\ channels = EmptyDict /\ nextId = Ids.first_fresh
    /\ main_config = FullConfig
    /\ memberRoles = [m \in Members |-> {}]
    /\ lft_members = <<>>
    /\ files = [Community |-> EmptyDict, Competitive |-> EmptyDict, Teamsuche |-> <<>>,
                Clanmember |-> <<>>]
    /\ teams = [Community |-> EmptyDict, Competitive |-> EmptyDict]
    /\ wf = [p \in Procs |-> IdleLocals]
    /\ ops = 0
    /\ faults = 0
    /\ clan_members = <<>> /\ sync = SyncIdle /\ pw = PwIdle

\* `return await api_call_func()` inside the try of one loop iteration
RLCall ==
    /\ rl.pc = "call"
    /\ UNCHANGED wfVars
    /\ \E resp \in Responses :
        LET seen == Append(rl.responses, resp) IN
        CASE resp.kind = "ok" ->
                rl' = [rl EXCEPT !.pc = "returned", !.responses = seen]
          [] IsRateLimited(resp) ->
                rl' = [rl EXCEPT !.pc = "sleep", !.responses = seen,
                         !.pending = RetryAfter(resp, rl.base_delay, rl.attempt)]
          [] OTHER ->
                rl' = [rl EXCEPT !.pc = "raised", !.responses = seen]

\* `await asyncio.sleep(retry_after)`, then raise on the last attempt
RLSleep ==
    /\ rl.pc = "sleep"
    /\ UNCHANGED wfVars
    /\ rl' = [rl EXCEPT
                !.waits = Append(rl.waits, rl.pending),
                !.pending = 0,
                !.pc = IF IsLastAttempt(rl.attempt, rl.max_retries)
                         THEN "raised" ELSE "call",
                !.attempt = IF IsLastAttempt(rl.attempt, rl.max_retries)
                         THEN rl.attempt ELSE rl.attempt + 1]

RLNext == RLCall \/ RLSleep

SpecRL == RLInit /\ [][RLNext]_vars

(***************************************************************************)
(* Shared plumbing of the three workflows.                                 *)
(***************************************************************************)
Free(p) == wf[p].pc \in {"idle", "done"}

\* The locals of a workflow that starts now.
Begin(op, pc) ==
    [IdleLocals EXCEPT !.op = op, !.pc = pc,
        !.start_files = files, !.start_lft = lft_members, !.start_roles = roles,
        !.start_channels = channels, !.start_memberRoles = memberRoles]

Return(l, value) == [l EXCEPT !.pc = "done", !.result = value]

Failed(l, label) == [l EXCEPT !.failed = @ \cup {label}]

\* `await call(...)`, or `await call(...); await asyncio.sleep(...)` when sleeps
Called(l, call, wrapped, resp, sleeps) ==
    [l EXCEPT !.last = [call |-> call, wrapped |-> wrapped, resp |-> resp,
                        slept |-> (resp = "ok" /\ sleeps),
                        unpaced |-> (@.call # "none" /\ @.resp = "ok" /\ ~@.slept)]]

Cost(out) == IF out = "ok" THEN 0 ELSE 1

\* A call (and, with it, a file write) may fail only within the fault budget.
Pay(out) == faults + Cost(out) <= MaxFaults /\ faults' = faults + Cost(out)
Pay2(out, io) ==
    /\ faults + Cost(out) + Cost(io) <= MaxFaults
    /\ faults' = faults + Cost(out) + Cost(io)

\* Role.delete(): the role disappears from the guild and from every member.
DeleteRole(id) ==
    /\ roles' = DictDel(roles, id)
    /\ memberRoles' = [m \in GuildMembers |-> memberRoles[m] \ {id}]

\* self.competitive_teams = load_json(...); self.community_teams = load_json(...)
ReloadTeams == teams' = [Community |-> files.Community, Competitive |-> files.Competitive]

\* `self.community_teams = load_json(...)` binds a new dict: the
\* current_config_dict of every other delete that has done its lookup keeps
\* referring to the dict loaded before, with the content it has now.
Rebound(w, p) ==
    [q \in DOMAIN w |->
        IF q # p /\ w[q].op = "delete" /\ w[q].found /\ w[q].pc # "done" /\ ~w[q].detached
        THEN [w[q] EXCEPT !.detached = TRUE, !.stale_dict = teams[w[q].team_type]]
        ELSE w[q]]

TeamRecord(role_id, text_id, voice_id, captain_id, member_ids, private_id) ==
    [role_id |-> role_id, text_channel_id |-> text_id, voice_channel_id |-> voice_id,
     captain_id |-> captain_id, member_ids |-> member_ids,
     private_voice_channel_id |-> private_id]

(***************************************************************************)
(* execute_team_creation (src/mm_module.py:2061-2255).                     *)
(***************************************************************************)
VoiceDetail(team_type) ==
    IF team_type = "Community" THEN "voice_community" ELSE "voice_competitive"

\* The two prefix glyphs of the voice channel names, one character each.
DIAMOND == "U+1F538"
LOCK == "U+1F512"

\* channel_definitions with safe_channel_name already applied
ChannelDefinitions(team_name, team_type) ==
    LET common ==
          << [type_detail |-> "text",
              name |-> Truncate(SpacesToDashes(team_name))],
             [type_detail |-> VoiceDetail(team_type),
              name |-> Truncate(SpacesToDashes(<<DIAMOND>> \o RemoveSpaces(team_name)))] >>
    IN IF team_type = "Competitive"
       THEN Append(common, [type_detail |-> "private_voice_competitive",
                            name |-> Truncate(<<LOCK, " ">> \o team_name)])
       ELSE common

\* created_channels.get(type_detail)
CreatedChannel(created_channels, type_detail) ==
    IF \E i \in 1..Len(created_channels) : created_channels[i][1] = type_detail
    THEN created_channels[CHOOSE i \in 1..Len(created_channels) :
                              created_channels[i][1] = type_detail][2]
    ELSE None

\* line 2089, on the partitions as just reloaded from the files
NameTakenCompetitiveOnly(team_name) == team_name \in DOMAIN files.Competitive

NameTaken(team_name) ==
    team_name \in DOMAIN files.Competitive \/ team_name \in DOMAIN files.Community

\* TeamCreateView.create_button hands the chosen name, type and roster over
StartCreate(p) ==
    /\ Free(p) /\ ops < MaxOps
    /\ \E name \in TeamNames, type \in Types, roster \in Rosters :
          wf' = [wf EXCEPT ![p] =
                [Begin("create", "c_followup") EXCEPT !.team_name = name,
                    !.team_type = type, !.members = roster.members,
                    !.captain = roster.captain]]
    /\ ops' = ops + 1
    /\ UNCHANGED <<rl, pw, clan_members, sync, roles, channels, memberRoles, nextId, main_config, teams,
                   lft_members, files, faults>>

\* lines 2067-2089: the progress message, then the reload and the duplicate check
CFollowup(p) ==
    LET l == wf[p] IN
    /\ l.pc = "c_followup"
    /\ \E out \in WrappedOutcomes :
        /\ Pay(out)
        /\ CASE out = "ok" ->
                  /\ ReloadTeams
                  /\ wf' = Rebound([wf EXCEPT ![p] =
                       Called([l EXCEPT !.pc =
                          IF NameTaken(l.team_name)
                          THEN "c_dup_msg" ELSE "c_progress_role"], "send", TRUE, out, FALSE)], p)
             [] out = "http" ->
                  /\ wf' = [wf EXCEPT ![p] = Called(Return(Failed(l, "followup"), "false"), "send", TRUE, out, FALSE)]
                  /\ UNCHANGED teams
             [] OTHER ->
                  /\ wf' = [wf EXCEPT ![p] = Called(Return(Failed(l, "followup"), "raised"), "send", TRUE, out, FALSE)]
                  /\ UNCHANGED teams
    /\ UNCHANGED <<rl, pw, clan_members, sync, roles, channels, memberRoles, nextId, main_config,
                   lft_members, files, ops>>

\* lines 2090-2091
CDupMsg(p) ==
    LET l == wf[p] IN
    /\ l.pc = "c_dup_msg"
    /\ \E out \in ApiResponses :
        /\ Pay(out)
        /\ wf' = [wf EXCEPT ![p] =
                   Called(IF out = "ok" THEN Return(l, "false")
                   ELSE Return(Failed(l, "notice"), "raised"), "edit_message", FALSE, out, FALSE)]
    /\ UNCHANGED <<rl, pw, clan_members, sync, roles, channels, memberRoles, nextId, main_config, teams,
                   lft_members, files, ops>>

\* line 2098
CProgressRole(p) ==
    LET l == wf[p] IN
    /\ l.pc = "c_progress_role"
    /\ \E out \in ApiResponses :
        /\ Pay(out)
        /\ wf' = [wf EXCEPT ![p] =
                   Called(IF out = "ok" THEN [l EXCEPT !.pc = "c_create_role"]
                   ELSE [Failed(l, "progress") EXCEPT !.pc = "c_rb_msg"], "edit_message", FALSE, out, TRUE)]
    /\ UNCHANGED <<rl, pw, clan_members, sync, roles, channels, memberRoles, nextId, main_config, teams,
                   lft_members, files, ops>>

\* lines 2101-2109
CCreateRole(p) ==
    LET l == wf[p] IN
    /\ l.pc = "c_create_role"
    /\ \E out \in ApiResponses :
        /\ Pay(out)
        /\ IF out = "ok"
           THEN /\ roles' = DictPut(roles, nextId,
                             [name |-> l.team_name, hoist |-> (l.team_type = "Competitive")])
                /\ nextId' = nextId + 1
                /\ wf' = [wf EXCEPT ![p] =
                     Called([l EXCEPT !.pc = "c_progress_channels", !.created_role = nextId,
                               !.made = @ \cup {nextId}], "create_role", FALSE, out, FALSE)]
           ELSE /\ wf' = [wf EXCEPT ![p] =
                     Called([Failed(l, "create_role") EXCEPT !.pc = "c_rb_msg"], "create_role", FALSE, out, FALSE)]
                /\ UNCHANGED <<roles, nextId>>
    /\ UNCHANGED <<rl, pw, clan_members, sync, channels, memberRoles, main_config, teams, lft_members,
                   files, ops>>

\* lines 2112-2118: progress update, then the target category must resolve
CProgressChannels(p) ==
    LET l == wf[p] IN
    /\ l.pc = "c_progress_channels"
    /\ \E out \in ApiResponses :
        /\ Pay(out)
        /\ wf' = [wf EXCEPT ![p] =
                   Called(IF out # "ok" THEN [Failed(l, "progress") EXCEPT !.pc = "c_rb_msg"]
                   ELSE IF GetCategory(l.team_type) = None
                        THEN [l EXCEPT !.pc = "c_rb_msg"]
                        ELSE [l EXCEPT !.pc = "c_create_channel", !.idx = 1], "edit_message", FALSE, out, TRUE)]
    /\ UNCHANGED <<rl, pw, clan_members, sync, roles, channels, memberRoles, nextId, main_config, teams,
                   lft_members, files, ops>>

\* lines 2127-2159: one iteration of `for ch_def in channel_definitions`
CCreateChannel(p) ==
    LET l == wf[p]
        defs == ChannelDefinitions(l.team_name, l.team_type)
        ch_def == defs[l.idx]
    IN
    /\ l.pc = "c_create_channel"
    /\ \E out \in ApiResponses :
        /\ Pay(out)
        /\ IF out = "ok"
           THEN /\ channels' = DictPut(channels, nextId,
                    [kind |-> IF ch_def.type_detail = "text" THEN "text" ELSE "voice",
                     name |-> ch_def.name,
                     category |-> GetCategory(l.team_type),
                     overwrites |-> GetPermissionOverwrites(main_config, LiveRoles,
                                        l.created_role, l.team_type, ch_def.type_detail)])
                /\ nextId' = nextId + 1
                /\ wf' = [wf EXCEPT ![p] =
                     Called([l EXCEPT !.created_channels = Append(@, <<ch_def.type_detail, nextId>>),
                               !.made = @ \cup {nextId},
                               !.idx = @ + 1,
                               !.pc = IF l.idx = Len(defs) THEN "c_progress_assign"
                                      ELSE "c_create_channel"], "create_channel", FALSE, out, TRUE)]
           ELSE /\ wf' = [wf EXCEPT ![p] =
                     Called([Failed(l, "create_channel") EXCEPT !.pc = "c_rb_msg"], "create_channel", FALSE, out, TRUE)]
                /\ UNCHANGED <<channels, nextId>>
    /\ UNCHANGED <<rl, pw, clan_members, sync, roles, memberRoles, main_config, teams, lft_members, files, ops>>

\* lines 2162-2174
CProgressAssign(p) ==
    LET l == wf[p]
        all_involved_members == l.members \cup ({l.captain} \ {None})
    IN
    /\ l.pc = "c_progress_assign"
    /\ \E out \in ApiResponses :
        /\ Pay(out)
        /\ wf' = [wf EXCEPT ![p] =
                   Called(IF out # "ok" THEN [Failed(l, "progress") EXCEPT !.pc = "c_rb_msg"]
                   ELSE [l EXCEPT !.todo = all_involved_members,
                                  !.pc = IF all_involved_members = {}
                                         THEN "c_progress_save" ELSE "c_m_add"], "edit_message", FALSE, out, TRUE)]
    /\ UNCHANGED <<rl, pw, clan_members, sync, roles, channels, memberRoles, nextId, main_config, teams,
                   lft_members, files, ops>>

\* lines 2176-2181: next member of the set, team role and generic type role
CMemberAdd(p) ==
    LET l == wf[p]
        roles_to_add_to_members ==
            {l.created_role, GetGenericTeamTypeRole(l.team_type)} \ {None}
    IN
    /\ l.pc = "c_m_add"
    /\ \E member_obj \in l.todo :
        LET current_roles_to_add == roles_to_add_to_members \ memberRoles[member_obj] IN
        IF current_roles_to_add = {}
        THEN /\ wf' = [wf EXCEPT ![p] = [l EXCEPT !.cur = member_obj, !.pc = "c_m_lft"]]
             /\ UNCHANGED <<memberRoles, faults>>
        ELSE \E out \in ApiResponses :
               /\ Pay(out)
               /\ IF out = "ok"
                  THEN /\ memberRoles' = [memberRoles EXCEPT
                                             ![member_obj] = @ \cup current_roles_to_add]
                       /\ wf' = [wf EXCEPT ![p] =
                                    Called([l EXCEPT !.cur = member_obj, !.pc = "c_m_lft"], "add_roles", FALSE, out, TRUE)]
                  ELSE /\ wf' = [wf EXCEPT ![p] =
                                    Called([Failed(l, "grant") EXCEPT !.pc = "c_rb_msg"], "add_roles", FALSE, out, TRUE)]
                       /\ UNCHANGED memberRoles
    /\ UNCHANGED <<rl, pw, clan_members, sync, roles, channels, nextId, main_config, teams, lft_members,
                   files, ops>>

\* lines 2184-2190: looking-for-team role and list
CMemberLft(p) ==
    LET l == wf[p]
        teamsuche_role_to_remove == GetTeamsucheRole
    IN
    /\ l.pc = "c_m_lft"
    /\ IF teamsuche_role_to_remove # None
          /\ teamsuche_role_to_remove \in memberRoles[l.cur]
       THEN \E out \in ApiResponses :
              IF out = "ok"
              THEN /\ memberRoles' = [memberRoles EXCEPT
                                         ![l.cur] = @ \ {teamsuche_role_to_remove}]
                   /\ wf' = [wf EXCEPT ![p] = Called([l EXCEPT !.pc = "c_m_capt"], "remove_roles", FALSE, out, TRUE)]
                   /\ IF InList(l.cur, lft_members)
                      THEN /\ lft_members' = ListWithout(lft_members, l.cur)
                           /\ \E io \in IoOutcomes :
                                /\ Pay(io)
                                /\ files' = [files EXCEPT !.Teamsuche =
                                               SaveJson(@, lft_members', io)]
                      ELSE UNCHANGED <<lft_members, files, faults>>
              ELSE /\ Pay(out)
                   /\ wf' = [wf EXCEPT ![p] =
                                Called([Failed(l, "revoke") EXCEPT !.pc = "c_rb_msg"], "remove_roles", FALSE, out, TRUE)]
                   /\ UNCHANGED <<memberRoles, lft_members, files>>
       ELSE /\ wf' = [wf EXCEPT ![p] = [l EXCEPT !.pc = "c_m_capt"]]
            /\ UNCHANGED <<memberRoles, lft_members, files, faults>>
    /\ UNCHANGED <<rl, pw, clan_members, sync, roles, channels, nextId, main_config, teams, ops>>

\* lines 2193-2198: captain role, then the member id is recorded
CMemberCaptain(p) ==
    LET l == wf[p]
        captain_role_to_add == GetCaptainRole
        recorded == [l EXCEPT
                       !.member_ids_for_json =
                            IF InList(l.cur, @) THEN @ ELSE Append(@, l.cur),
                       !.todo = @ \ {l.cur},
                       !.pc = IF l.todo \ {l.cur} = {} THEN "c_progress_save"
                              ELSE "c_m_add"]
    IN
    /\ l.pc = "c_m_capt"
    /\ IF l.cur = l.captain /\ captain_role_to_add # None
          /\ captain_role_to_add \notin memberRoles[l.cur]
       THEN \E out \in ApiResponses :
              /\ Pay(out)
              /\ IF out = "ok"
                 THEN /\ memberRoles' = [memberRoles EXCEPT
                                            ![l.cur] = @ \cup {captain_role_to_add}]
                      /\ wf' = [wf EXCEPT ![p] = Called(recorded, "add_roles", FALSE, out, TRUE)]
                 ELSE /\ wf' = [wf EXCEPT ![p] =
                                   Called([Failed(l, "grant") EXCEPT !.pc = "c_rb_msg"], "add_roles", FALSE, out, TRUE)]
                      /\ UNCHANGED memberRoles
       ELSE /\ wf' = [wf EXCEPT ![p] = recorded]
            /\ UNCHANGED <<memberRoles, faults>>
    /\ UNCHANGED <<rl, pw, clan_members, sync, roles, channels, nextId, main_config, teams, lft_members,
                   files, ops>>

\* lines 2201-2226: progress update, the record, its validation, the write
CSave(p) ==
    LET l == wf[p]
        team_json_data ==
            TeamRecord(l.created_role,
                       CreatedChannel(l.created_channels, "text"),
                       CreatedChannel(l.created_channels, VoiceDetail(l.team_type)),
                       l.captain, l.member_ids_for_json,
                       IF l.team_type = "Competitive"
                       THEN CreatedChannel(l.created_channels, "private_voice_competitive")
                       ELSE None)
        missing ==
            \/ team_json_data.text_channel_id = None
            \/ team_json_data.voice_channel_id = None
            \/ (l.team_type = "Competitive"
                  /\ team_json_data.private_voice_channel_id = None)
    IN
    /\ l.pc = "c_progress_save"
    /\ \E out \in ApiResponses :
          IF out # "ok"
          THEN /\ Pay(out)
               /\ wf' = [wf EXCEPT ![p] =
                           Called([Failed(l, "progress") EXCEPT !.pc = "c_rb_msg"], "edit_message", FALSE, out, TRUE)]
               /\ UNCHANGED <<teams, files>>
          ELSE IF missing
          THEN /\ wf' = [wf EXCEPT ![p] = Called([l EXCEPT !.pc = "c_rb_msg"], "edit_message", FALSE, out, TRUE)]
               /\ UNCHANGED <<teams, files, faults>>
          ELSE /\ teams' = [teams EXCEPT ![l.team_type] =
                                DictPut(@, l.team_name, team_json_data)]
               /\ \E io \in IoOutcomes :
                    /\ Pay(io)
                    /\ files' = [files EXCEPT ![l.team_type] =
                                    SaveJson(@, teams'[l.team_type], io)]
                    /\ wf' = [wf EXCEPT ![p] =
                                Called([(IF io = "ok" THEN l ELSE Failed(l, "write"))
                                    EXCEPT !.pc = "c_success_msg"], "edit_message", FALSE, out, TRUE)]
    /\ UNCHANGED <<rl, pw, clan_members, sync, roles, channels, memberRoles, nextId, main_config,
                   lft_members, ops>>

\* lines 2228-2230
CSuccessMsg(p) ==
    LET l == wf[p] IN
    /\ l.pc = "c_success_msg"
    /\ \E out \in ApiResponses :
        /\ Pay(out)
        /\ wf' = [wf EXCEPT ![p] =
                   Called(IF out = "ok" THEN Return(l, "true")
                   ELSE [Failed(l, "progress") EXCEPT !.pc = "c_rb_msg"], "edit_message", FALSE, out, FALSE)]
    /\ UNCHANGED <<rl, pw, clan_members, sync, roles, channels, memberRoles, nextId, main_config, teams,
                   lft_members, files, ops>>

\* line 2234: the first statement of the handler, awaited bare
CRollbackMsg(p) ==
    LET l == wf[p] IN
    /\ l.pc = "c_rb_msg"
    /\ \E out \in ApiResponses :
        /\ Pay(out)
        /\ wf' = [wf EXCEPT ![p] =
                   Called(IF out = "ok" THEN [l EXCEPT !.pc = "c_rb_role"]
                   ELSE Return(Failed(l, "rollback_notice"), "raised"), "edit_message", FALSE, out, FALSE)]
    /\ UNCHANGED <<rl, pw, clan_members, sync, roles, channels, memberRoles, nextId, main_config, teams,
                   lft_members, files, ops>>

\* lines 2237-2239
CRollbackRole(p) ==
    LET l == wf[p]
        next == [l EXCEPT !.idx = 1,
                          !.pc = IF l.created_channels = <<>> THEN "c_rb_config"
                                 ELSE "c_rb_channel"]
    IN
    /\ l.pc = "c_rb_role"
    /\ IF l.created_role # None
       THEN \E out \in ApiResponses :
              /\ Pay(out)
              /\ IF out = "ok"
                 THEN /\ DeleteRole(l.created_role)
                      /\ wf' = [wf EXCEPT ![p] = Called(next, "delete_role", FALSE, out, TRUE)]
                 ELSE /\ wf' = [wf EXCEPT ![p] = Called(Failed(next, "rollback_role"), "delete_role", FALSE, out, TRUE)]
                      /\ UNCHANGED <<roles, memberRoles>>
       ELSE /\ wf' = [wf EXCEPT ![p] = next]
            /\ UNCHANGED <<roles, memberRoles, faults>>
    /\ UNCHANGED <<rl, pw, clan_members, sync, channels, nextId, main_config, teams, lft_members, files, ops>>

\* lines 2240-2242: one iteration of `for channel_obj in created_channels.values()`
CRollbackChannel(p) ==
    LET l == wf[p]
        channel_obj == l.created_channels[l.idx][2]
        next == [l EXCEPT !.idx = @ + 1,
                          !.pc = IF l.idx = Len(l.created_channels) THEN "c_rb_config"
                                 ELSE "c_rb_channel"]
    IN
    /\ l.pc = "c_rb_channel"
    /\ \E out \in ApiResponses :
        /\ Pay(out)
        /\ IF out = "ok"
           THEN /\ channels' = DictDel(channels, channel_obj)
                /\ wf' = [wf EXCEPT ![p] = Called(next, "delete_channel", FALSE, out, TRUE)]
           ELSE /\ wf' = [wf EXCEPT ![p] = Called(Failed(next, "rollback_channel"), "delete_channel", FALSE, out, TRUE)]
                /\ UNCHANGED channels
    /\ UNCHANGED <<rl, pw, clan_members, sync, roles, memberRoles, nextId, main_config, teams, lft_members,
                   files, ops>>

\* lines 2245-2248
CRollbackConfig(p) ==
    LET l == wf[p] IN
    /\ l.pc = "c_rb_config"
    /\ IF l.team_name \in DOMAIN teams[l.team_type]
       THEN /\ teams' = [teams EXCEPT ![l.team_type] = DictDel(@, l.team_name)]
            /\ \E io \in IoOutcomes :
                 /\ Pay(io)
                 /\ files' = [files EXCEPT ![l.team_type] =
                                 SaveJson(@, teams'[l.team_type], io)]
                 /\ wf' = [wf EXCEPT ![p] =
                             [(IF io = "ok" THEN l ELSE Failed(l, "rollback_write"))
                                 EXCEPT !.pc = "c_rb_final"]]
       ELSE /\ wf' = [wf EXCEPT ![p] = [l EXCEPT !.pc = "c_rb_final"]]
            /\ UNCHANGED <<teams, files, faults>>
    /\ UNCHANGED <<rl, pw, clan_members, sync, roles, channels, memberRoles, nextId, main_config,
                   lft_members, ops>>

\* lines 2251-2255
CRollbackFinal(p) ==
    LET l == wf[p] IN
    /\ l.pc = "c_rb_final"
    /\ \E out \in WrappedOutcomes :
        /\ Pay(out)
        /\ wf' = [wf EXCEPT ![p] =
                   Called(IF out = "ok" THEN Return(l, "false")
                   ELSE Return(Failed(l, "notice"), "raised"), "edit_message", TRUE, out, FALSE)]
    /\ UNCHANGED <<rl, pw, clan_members, sync, roles, channels, memberRoles, nextId, main_config, teams,
                   lft_members, files, ops>>

CreateStep(p) ==
    \/ CFollowup(p) \/ CDupMsg(p) \/ CProgressRole(p) \/ CCreateRole(p)
    \/ CProgressChannels(p) \/ CCreateChannel(p) \/ CProgressAssign(p)
    \/ CMemberAdd(p) \/ CMemberLft(p) \/ CMemberCaptain(p) \/ CSave(p)
    \/ CSuccessMsg(p) \/ CRollbackMsg(p) \/ CRollbackRole(p) \/ CRollbackChannel(p)
    \/ CRollbackConfig(p) \/ CRollbackFinal(p)

(***************************************************************************)
(* execute_team_deletion (src/mm_module.py:2257-2425).                     *)
(***************************************************************************)
\* filter(None, [text_channel_id, voice_channel_id, private_voice_channel_id])
ChannelIdsToDelete(team_data) ==
    SelectSeq(<<team_data.text_channel_id, team_data.voice_channel_id,
                team_data.private_voice_channel_id>>, LAMBDA id : id # None)

\* lines 2327-2329: a failing remove_roles is logged and flags the outcome
StripFailedIgnored(next) == Failed(next, "strip")

StripFailed(next) == [Failed(next, "strip") EXCEPT !.all_successful = FALSE]

\* ConfirmDeleteView's button: the name and type it was opened for
StartDelete(p) ==
    /\ Free(p) /\ ops < MaxOps
    /\ \E name \in TeamNames, type \in Types :
          wf' = [wf EXCEPT ![p] =
                [Begin("delete", "d_followup") EXCEPT !.team_name = name,
                                                      !.team_type = type]]
    /\ ops' = ops + 1
    /\ UNCHANGED <<rl, pw, clan_members, sync, roles, channels, memberRoles, nextId, main_config, teams,
                   lft_members, files, faults>>

\* lines 2261-2282: the progress message, the reload, the lookup
DFollowup(p) ==
    LET l == wf[p] IN
    /\ l.pc = "d_followup"
    /\ \E out \in WrappedOutcomes :
        /\ Pay(out)
        /\ CASE out = "ok" ->
                  /\ ReloadTeams
                  /\ wf' = Rebound([wf EXCEPT ![p] =
                       Called(IF l.team_name \in DOMAIN files[l.team_type]
                       THEN [l EXCEPT !.team_data = files[l.team_type][l.team_name],
                                      !.found = TRUE,
                                      !.pc = "d_progress_roles"]
                       ELSE [l EXCEPT !.pc = "d_notfound_msg"], "send", TRUE, out, FALSE)], p)
             [] out = "http" ->
                  /\ wf' = [wf EXCEPT ![p] = Called(Return(Failed(l, "followup"), "false"), "send", TRUE, out, FALSE)]
                  /\ UNCHANGED teams
             [] OTHER ->
                  /\ wf' = [wf EXCEPT ![p] = Called(Return(Failed(l, "followup"), "raised"), "send", TRUE, out, FALSE)]
                  /\ UNCHANGED teams
    /\ UNCHANGED <<rl, pw, clan_members, sync, roles, channels, memberRoles, nextId, main_config,
                   lft_members, files, ops>>

\* lines 2282-2288
DNotFoundMsg(p) ==
    LET l == wf[p] IN
    /\ l.pc = "d_notfound_msg"
    /\ \E out \in WrappedOutcomes :
        /\ Pay(out)
        /\ wf' = [wf EXCEPT ![p] =
                   Called(IF out = "ok" THEN Return(l, "false")
                   ELSE Return(Failed(l, "notice"), "raised"), "edit_message", TRUE, out, FALSE)]
    /\ UNCHANGED <<rl, pw, clan_members, sync, roles, channels, memberRoles, nextId, main_config, teams,
                   lft_members, files, ops>>

\* lines 2295-2314: progress update, then the roles to strip are resolved
DProgressRoles(p) ==
    LET l == wf[p] IN
    /\ l.pc = "d_progress_roles"
    /\ \E out \in WrappedOutcomes :
        /\ Pay(out)
        /\ wf' = [wf EXCEPT ![p] =
                   Called(IF out # "ok" THEN [Failed(l, "progress") EXCEPT !.pc = "d_fatal"]
                   ELSE [l EXCEPT !.team_role_obj = GetRole(l.team_data.role_id),
                                  !.stages = @ \cup {"MemberRoleStrip"},
                                  !.idx = 1,
                                  !.pc = IF l.team_data.member_ids = <<>>
                                         THEN "d_progress_channels" ELSE "d_strip"], "edit_message", TRUE, out, TRUE)]
    /\ UNCHANGED <<rl, pw, clan_members, sync, roles, channels, memberRoles, nextId, main_config, teams,
                   lft_members, files, ops>>

\* lines 2316-2329: one iteration of `for m_id in member_ids`
DStrip(p) ==
    LET l == wf[p]
        m_id == l.team_data.member_ids[l.idx]
        roles_to_strip_for_regular_member ==
            {l.team_role_obj, GetGenericTeamTypeRole(l.team_type)} \ {None}
        roles_to_strip_for_captain ==
            roles_to_strip_for_regular_member \cup ({GetCaptainRole} \ {None})
        roles_to_attempt_remove ==
            IF m_id = l.team_data.captain_id THEN roles_to_strip_for_captain
            ELSE roles_to_strip_for_regular_member
        actual_roles_to_remove == roles_to_attempt_remove \cap memberRoles[m_id]
        next == [l EXCEPT !.idx = @ + 1,
                          !.pc = IF l.idx = Len(l.team_data.member_ids)
                                 THEN "d_progress_channels" ELSE "d_strip"]
    IN
    /\ l.pc = "d_strip"
    /\ IF actual_roles_to_remove # {}
       THEN \E out \in ApiResponses :
              /\ Pay(out)
              /\ IF out = "ok"
                 THEN /\ memberRoles' = [memberRoles EXCEPT
                                            ![m_id] = @ \ actual_roles_to_remove]
                      /\ wf' = [wf EXCEPT ![p] = Called(next, "remove_roles", FALSE, out, TRUE)]
                 ELSE /\ wf' = [wf EXCEPT ![p] = Called(StripFailed(next), "remove_roles", FALSE, out, TRUE)]
                      /\ UNCHANGED memberRoles
       ELSE /\ wf' = [wf EXCEPT ![p] = next]
            /\ UNCHANGED <<memberRoles, faults>>
    /\ UNCHANGED <<rl, pw, clan_members, sync, roles, channels, nextId, main_config, teams, lft_members,
                   files, ops>>

\* lines 2332-2341
DProgressChannels(p) ==
    LET l == wf[p] IN
    /\ l.pc = "d_progress_channels"
    /\ \E out \in WrappedOutcomes :
        /\ Pay(out)
        /\ wf' = [wf EXCEPT ![p] =
                   Called(IF out # "ok" THEN [Failed(l, "progress") EXCEPT !.pc = "d_fatal"]
                   ELSE [l EXCEPT !.stages = @ \cup {"ChannelsDelete"},
                                  !.idx = 1,
                                  !.pc = IF ChannelIdsToDelete(l.team_data) = <<>>
                                         THEN "d_progress_role" ELSE "d_del_channel"], "edit_message", TRUE, out, TRUE)]
    /\ UNCHANGED <<rl, pw, clan_members, sync, roles, channels, memberRoles, nextId, main_config, teams,
                   lft_members, files, ops>>

\* lines 2342-2352: one iteration of `for ch_id in filter(None, channel_ids_to_delete)`
DDeleteChannel(p) ==
    LET l == wf[p]
        ids == ChannelIdsToDelete(l.team_data)
        channel_obj == GetChannel(ids[l.idx])
        next == [l EXCEPT !.idx = @ + 1,
                          !.pc = IF l.idx = Len(ids) THEN "d_progress_role"
                                 ELSE "d_del_channel"]
    IN
    /\ l.pc = "d_del_channel"
    /\ IF channel_obj # None
       THEN \E out \in ApiResponses :
              /\ Pay(out)
              /\ IF out = "ok"
                 THEN /\ channels' = DictDel(channels, channel_obj)
                      /\ wf' = [wf EXCEPT ![p] = Called(next, "delete_channel", FALSE, out, TRUE)]
                 ELSE /\ wf' = [wf EXCEPT ![p] =
                                  Called([Failed(next, "delete_channel")
                                      EXCEPT !.all_successful = FALSE], "delete_channel", FALSE, out, TRUE)]
                      /\ UNCHANGED channels
       ELSE /\ wf' = [wf EXCEPT ![p] = next]
            /\ UNCHANGED <<channels, faults>>
    /\ UNCHANGED <<rl, pw, clan_members, sync, roles, memberRoles, nextId, main_config, teams, lft_members,
                   files, ops>>

\* lines 2355-2359
DProgressRole(p) ==
    LET l == wf[p] IN
    /\ l.pc = "d_progress_role"
    /\ \E out \in WrappedOutcomes :
        /\ Pay(out)
        /\ wf' = [wf EXCEPT ![p] =
                   Called(IF out # "ok" THEN [Failed(l, "progress") EXCEPT !.pc = "d_fatal"]
                   ELSE [l EXCEPT !.stages = @ \cup {"RoleDelete"},
                                  !.pc = "d_del_role"], "edit_message", TRUE, out, TRUE)]
    /\ UNCHANGED <<rl, pw, clan_members, sync, roles, channels, memberRoles, nextId, main_config, teams,
                   lft_members, files, ops>>

RoleNotFoundCountsAsFailure(l) == [l EXCEPT !.all_successful = FALSE]

\* lines 2371-2374: the role does not resolve; only the summary says so
RoleNotFound(l) == l

\* lines 2360-2373
DDeleteRole(p) ==
    LET l == wf[p]
        next == [l EXCEPT !.pc = "d_progress_config"]
    IN
    /\ l.pc = "d_del_role"
    /\ IF l.team_role_obj # None
       THEN \E out \in ApiResponses :
              /\ Pay(out)
              /\ IF out = "ok"
                 THEN /\ DeleteRole(l.team_role_obj)
                      /\ wf' = [wf EXCEPT ![p] = Called(next, "delete_role", FALSE, out, TRUE)]
                 ELSE /\ wf' = [wf EXCEPT ![p] =
                                  Called([Failed(next, "delete_role")
                                      EXCEPT !.all_successful = FALSE], "delete_role", FALSE, out, TRUE)]
                      /\ UNCHANGED <<roles, memberRoles>>
       ELSE /\ wf' = [wf EXCEPT ![p] = RoleNotFound(next)]
            /\ UNCHANGED <<roles, memberRoles, faults>>
    /\ UNCHANGED <<rl, pw, clan_members, sync, channels, nextId, main_config, teams, lft_members, files, ops>>

\* lines 2376-2391: progress update, then `del` and save_json
DConfigRemove(p) ==
    LET l == wf[p]
        current_config_dict == IF l.detached THEN l.stale_dict ELSE teams[l.team_type]
    IN
    /\ l.pc = "d_progress_config"
    /\ \E out \in WrappedOutcomes :
          IF out # "ok"
          THEN /\ Pay(out)
               /\ wf' = [wf EXCEPT ![p] =
                           Called([Failed(l, "progress") EXCEPT !.pc = "d_fatal"], "edit_message", TRUE, out, TRUE)]
               /\ UNCHANGED <<teams, files>>
          ELSE IF l.team_name \in DOMAIN current_config_dict
          THEN /\ teams' = IF l.detached THEN teams
                           ELSE [teams EXCEPT ![l.team_type] = DictDel(@, l.team_name)]
               /\ \E io \in IoOutcomes :
                    /\ Pay(io)
                    /\ files' = [files EXCEPT ![l.team_type] =
                                    SaveJson(@, DictDel(current_config_dict, l.team_name), io)]
                    /\ wf' = [wf EXCEPT ![p] =
                                Called([(IF io = "ok" THEN l ELSE Failed(l, "write"))
                                    EXCEPT !.stages = @ \cup {"ConfigRemove"},
                                           !.pc = "d_final_msg"], "edit_message", TRUE, out, TRUE)]
          ELSE /\ wf' = [wf EXCEPT ![p] =
                           Called([l EXCEPT !.stages = @ \cup {"ConfigRemove"},
                                     !.pc = "d_final_msg"], "edit_message", TRUE, out, TRUE)]
               /\ UNCHANGED <<teams, files, faults>>
    /\ UNCHANGED <<rl, pw, clan_members, sync, roles, channels, memberRoles, nextId, main_config,
                   lft_members, ops>>

\* lines 2393-2413 and 2425
DFinalMsg(p) ==
    LET l == wf[p] IN
    /\ l.pc = "d_final_msg"
    /\ \E out \in WrappedOutcomes :
        /\ Pay(out)
        /\ wf' = [wf EXCEPT ![p] =
                   Called(IF out # "ok" THEN [Failed(l, "final") EXCEPT !.pc = "d_fatal"]
                   ELSE Return(l, IF l.all_successful THEN "true" ELSE "false"), "edit_message", TRUE, out, FALSE)]
    /\ UNCHANGED <<rl, pw, clan_members, sync, roles, channels, memberRoles, nextId, main_config, teams,
                   lft_members, files, ops>>

\* lines 2415-2424: the fatal handler; its own message may fail silently
DFatal(p) ==
    LET l == wf[p] IN
    /\ l.pc = "d_fatal"
    /\ \E out \in WrappedOutcomes :
        /\ Pay(out)
        /\ wf' = [wf EXCEPT ![p] =
                   Called(Return(IF out = "ok" THEN l ELSE Failed(l, "notice"), "false"), "edit_message", TRUE, out, FALSE)]
    /\ UNCHANGED <<rl, pw, clan_members, sync, roles, channels, memberRoles, nextId, main_config, teams,
                   lft_members, files, ops>>

DeleteStep(p) ==
    \/ DFollowup(p) \/ DNotFoundMsg(p) \/ DProgressRoles(p) \/ DStrip(p)
    \/ DProgressChannels(p) \/ DDeleteChannel(p) \/ DProgressRole(p)
    \/ DDeleteRole(p) \/ DConfigRemove(p) \/ DFinalMsg(p) \/ DFatal(p)

(***************************************************************************)
(* execute_team_edit (src/mm_module.py:2427-2691) and the changeset that   *)
(* TeamEditView collects for it (src/mm_module.py:524-706).                *)
(***************************************************************************)
NoName == <<>>       \* "name" not in changes
NoType == "none"     \* "type" not in changes

OtherType(team_type) == IF team_type = "Community" THEN "Competitive" ELSE "Community"

\* Which of the five stages a changeset asks for, in execution order; the
\* sixth step, the save, always runs.
Requested(changes, i) ==
    CASE i = 1 -> changes.name # NoName
      [] i = 2 -> changes.type # NoType
      [] i = 3 -> changes.has_captain
      [] i = 4 -> changes.add_members # <<>>
      [] i = 5 -> changes.remove_members # <<>>
      [] OTHER -> TRUE

StageCount(changes) == Cardinality({i \in 1..5 : Requested(changes, i)})

\* changes_made as the view's callbacks can leave it for one team: any user as
\* captain, members removed from the current list, users added while the list
\* shown has fewer than seven entries
Changesets(team_name, team_type, team_data) ==
    LET current == ListSet(team_data.member_ids) IN
    {c \in [name : {NoName} \cup (TeamNames \ {team_name}),
            type : {NoType, OtherType(team_type)},
            has_captain : BOOLEAN,
            captain : GuildMembers \cup {None},
            add_members : {SetToList(S) : S \in SUBSET (GuildMembers \ current)},
            remove_members : {SetToList(S) : S \in SUBSET current}] :
        /\ ~c.has_captain => c.captain = None
        /\ (team_data.captain_id # None /\ InList(team_data.captain_id, c.remove_members))
              => c.has_captain
        /\ c.add_members # <<>>
              => Len(team_data.member_ids) - Len(c.remove_members)
                    + Len(c.add_members) <= MAX_TEAM_SIZE
        /\ StageCount(c) \in 1..MaxStages}

StagePc == <<"e_rename_role", "e_type_hoist", "e_capt_old", "e_add_grant",
             "e_rem_strip", "e_save">>

\* The stage that runs once stage `after` is over.
NextStage(changes, after) ==
    CHOOSE i \in (after + 1)..6 :
        Requested(changes, i) /\ \A j \in (after + 1)..(i - 1) : ~Requested(changes, j)

AdvanceFromTheTop(l, after) ==
    LET i == NextStage(l.changes, 0) IN
    [l EXCEPT !.idx = 1, !.stage = i, !.pc = IF i = 6 THEN "e_save" ELSE "e_stage_msg"]

\* Enter the next requested stage: its progress message comes first.
Advance(l, after) ==
    LET i == NextStage(l.changes, after) IN
    [l EXCEPT !.idx = 1, !.stage = i, !.pc = IF i = 6 THEN "e_save" ELSE "e_stage_msg"]

\* An exception inside the try block of the edit, raised by one of the stages.
RaiseInStageThenSave(l, label) ==
    [Failed(l, label) EXCEPT !.stage_raised = TRUE, !.pc = "e_save"]

RaiseInStage(l, label) ==
    [Failed(l, label) EXCEPT !.stage_raised = TRUE, !.pc = "e_fatal"]

ChannelKeys == <<"text_channel_id", "voice_channel_id", "private_voice_channel_id">>

\* new_ch_name of the rename loop
RenamedChannelName(ch_key, current_team_name) ==
    CASE ch_key = "private_voice_channel_id" ->
            Truncate(<<LOCK, " ">> \o current_team_name)
      [] ch_key = "voice_channel_id" ->
            Truncate(SpacesToDashes(<<DIAMOND>> \o current_team_name))
      [] OTHER -> Truncate(SpacesToDashes(current_team_name))

\* The edit menu lists the in-memory teams; get_team_data re-reads the file.
StartEdit(p) ==
    /\ Free(p) /\ ops < MaxOps
    /\ \E type \in Types :
        \E name \in (DOMAIN teams[type]) \cap (DOMAIN files[type]) :
          \E c \in Changesets(name, type, files[type][name]) :
             wf' = [wf EXCEPT ![p] =
                [Begin("edit", "e_followup") EXCEPT !.team_name = name,
                    !.team_type = type, !.team_data = files[type][name],
                    !.changes = c]]
    /\ ops' = ops + 1
    /\ UNCHANGED <<rl, pw, clan_members, sync, roles, channels, memberRoles, nextId, main_config, teams,
                   lft_members, files, faults>>

\* lines 2431-2450: progress message, working copy, team role lookup
EFollowup(p) ==
    LET l == wf[p]
        c == l.changes
        started ==
            [l EXCEPT !.working_data = l.team_data,
                      !.current_team_name = IF c.name # NoName THEN c.name ELSE l.team_name,
                      !.current_team_type = IF c.type # NoType THEN c.type ELSE l.team_type,
                      !.team_role_obj = GetRole(l.team_data.role_id)]
    IN
    /\ l.pc = "e_followup"
    /\ \E out \in WrappedOutcomes :
        /\ Pay(out)
        /\ wf' = [wf EXCEPT ![p] =
                   Called(CASE out = "ok" ->
                          IF started.team_role_obj = None
                          THEN [started EXCEPT !.pc = "e_norole_msg"]
                          ELSE Advance(started, 0)
                     [] out = "http" -> Return(Failed(l, "followup"), "false")
                     [] OTHER -> Return(Failed(l, "followup"), "raised"), "send", TRUE, out, FALSE)]
    /\ UNCHANGED <<rl, pw, clan_members, sync, roles, channels, memberRoles, nextId, main_config, teams,
                   lft_members, files, ops>>

\* lines 2450-2456
ENoRoleMsg(p) ==
    LET l == wf[p] IN
    /\ l.pc = "e_norole_msg"
    /\ \E out \in WrappedOutcomes :
        /\ Pay(out)
        /\ wf' = [wf EXCEPT ![p] =
                   Called(IF out = "ok" THEN Return(l, "false")
                   ELSE Return(Failed(l, "notice"), "raised"), "edit_message", TRUE, out, FALSE)]
    /\ UNCHANGED <<rl, pw, clan_members, sync, roles, channels, memberRoles, nextId, main_config, teams,
                   lft_members, files, ops>>

\* lines 2462, 2489, 2552, 2585, 2613: the progress message opening a stage
EStageMsg(p) ==
    LET l == wf[p] IN
    /\ l.pc = "e_stage_msg"
    /\ \E out \in WrappedOutcomes :
        /\ Pay(out)
        /\ wf' = [wf EXCEPT ![p] =
                   Called(IF out = "ok" THEN [l EXCEPT !.pc = StagePc[l.stage]]
                   ELSE RaiseInStage(l, "progress"), "edit_message", TRUE, out, TRUE)]
    /\ UNCHANGED <<rl, pw, clan_members, sync, roles, channels, memberRoles, nextId, main_config, teams,
                   lft_members, files, ops>>

\* line 2467
ERenameRole(p) ==
    LET l == wf[p] IN
    /\ l.pc = "e_rename_role"
    /\ \E out \in ApiResponses :
        /\ Pay(out)
        /\ IF out = "ok"
           THEN /\ roles' = [x \in DOMAIN roles |->
                               IF x = l.team_role_obj
                               THEN [roles[x] EXCEPT !.name = l.current_team_name]
                               ELSE roles[x]]
                /\ wf' = [wf EXCEPT ![p] = Called([l EXCEPT !.idx = 1, !.pc = "e_rename_channel"], "edit_role", FALSE, out, TRUE)]
           ELSE /\ wf' = [wf EXCEPT ![p] = Called(RaiseInStage(l, "rename_role"), "edit_role", FALSE, out, TRUE)]
                /\ UNCHANGED roles
    /\ UNCHANGED <<rl, pw, clan_members, sync, channels, memberRoles, nextId, main_config, teams,
                   lft_members, files, ops>>

\* lines 2474-2484: one iteration of `for ch_key, prefix in channel_keys_to_rename.items()`
ERenameChannel(p) ==
    LET l == wf[p]
        ch_key == ChannelKeys[l.idx]
        channel_to_rename == GetChannel(l.working_data[ch_key])
        next == IF l.idx = Len(ChannelKeys) THEN Advance(l, 1)
                ELSE [l EXCEPT !.idx = @ + 1]
    IN
    /\ l.pc = "e_rename_channel"
    /\ IF channel_to_rename # None
       THEN \E out \in ApiResponses :
              /\ Pay(out)
              /\ IF out = "ok"
                 THEN /\ channels' = [channels EXCEPT ![channel_to_rename].name =
                                         RenamedChannelName(ch_key, l.current_team_name)]
                      /\ wf' = [wf EXCEPT ![p] = Called(next, "edit_channel", FALSE, out, TRUE)]
                 ELSE /\ wf' = [wf EXCEPT ![p] = Called(RaiseInStage(l, "rename_channel"), "edit_channel", FALSE, out, TRUE)]
                      /\ UNCHANGED channels
       ELSE /\ wf' = [wf EXCEPT ![p] = next]
            /\ UNCHANGED <<channels, faults>>
    /\ UNCHANGED <<rl, pw, clan_members, sync, roles, memberRoles, nextId, main_config, teams, lft_members,
                   files, ops>>

\* lines 2498-2505: the role's hoist flag, then the generic type roles are resolved
ETypeHoist(p) ==
    LET l == wf[p] IN
    /\ l.pc = "e_type_hoist"
    /\ \E out \in ApiResponses :
        /\ Pay(out)
        /\ IF out = "ok"
           THEN /\ roles' = [x \in DOMAIN roles |->
                               IF x = l.team_role_obj
                               THEN [roles[x] EXCEPT
                                        !.hoist = (l.current_team_type = "Competitive")]
                               ELSE roles[x]]
                /\ wf' = [wf EXCEPT ![p] =
                     Called([l EXCEPT !.idx = 1,
                               !.pc = IF GetGenericTeamTypeRole(l.current_team_type) = None
                                         \/ l.working_data.member_ids = <<>>
                                      THEN "e_type_move" ELSE "e_type_m_remove"], "edit_role", FALSE, out, TRUE)]
           ELSE /\ wf' = [wf EXCEPT ![p] = Called(RaiseInStage(l, "retype_role"), "edit_role", FALSE, out, TRUE)]
                /\ UNCHANGED roles
    /\ UNCHANGED <<rl, pw, clan_members, sync, channels, memberRoles, nextId, main_config, teams,
                   lft_members, files, ops>>

\* lines 2508-2512: the old generic role of one member
ETypeMemberRemove(p) ==
    LET l == wf[p]
        m_id == l.working_data.member_ids[l.idx]
        old_generic_role == GetGenericTeamTypeRole(l.team_type)
        next == [l EXCEPT !.pc = "e_type_m_add"]
    IN
    /\ l.pc = "e_type_m_remove"
    /\ IF old_generic_role # None /\ old_generic_role \in memberRoles[m_id]
       THEN \E out \in ApiResponses :
              /\ Pay(out)
              /\ IF out = "ok"
                 THEN /\ memberRoles' = [memberRoles EXCEPT ![m_id] = @ \ {old_generic_role}]
                      /\ wf' = [wf EXCEPT ![p] = Called(next, "remove_roles", FALSE, out, TRUE)]
                 ELSE /\ wf' = [wf EXCEPT ![p] = Called(RaiseInStage(l, "revoke"), "remove_roles", FALSE, out, TRUE)]
                      /\ UNCHANGED memberRoles
       ELSE /\ wf' = [wf EXCEPT ![p] = next]
            /\ UNCHANGED <<memberRoles, faults>>
    /\ UNCHANGED <<rl, pw, clan_members, sync, roles, channels, nextId, main_config, teams, lft_members,
                   files, ops>>

\* lines 2513-2514: the new generic role of the same member
ETypeMemberAdd(p) ==
    LET l == wf[p]
        m_id == l.working_data.member_ids[l.idx]
        new_generic_role == GetGenericTeamTypeRole(l.current_team_type)
        next == IF l.idx = Len(l.working_data.member_ids)
                THEN [l EXCEPT !.idx = 1, !.pc = "e_type_move"]
                ELSE [l EXCEPT !.idx = @ + 1, !.pc = "e_type_m_remove"]
    IN
    /\ l.pc = "e_type_m_add"
    /\ IF new_generic_role \notin memberRoles[m_id]
       THEN \E out \in ApiResponses :
              /\ Pay(out)
              /\ IF out = "ok"
                 THEN /\ memberRoles' = [memberRoles EXCEPT ![m_id] = @ \cup {new_generic_role}]
                      /\ wf' = [wf EXCEPT ![p] = Called(next, "add_roles", FALSE, out, TRUE)]
                 ELSE /\ wf' = [wf EXCEPT ![p] = Called(RaiseInStage(l, "grant"), "add_roles", FALSE, out, TRUE)]
                      /\ UNCHANGED memberRoles
       ELSE /\ wf' = [wf EXCEPT ![p] = next]
            /\ UNCHANGED <<memberRoles, faults>>
    /\ UNCHANGED <<rl, pw, clan_members, sync, roles, channels, nextId, main_config, teams, lft_members,
                   files, ops>>

\* lines 2517-2527: text and voice channel go to the new category, if it resolves
ETypeMove(p) ==
    LET l == wf[p]
        new_category == GetCategory(l.current_team_type)
        channel_to_move == GetChannel(l.working_data[ChannelKeys[l.idx]])
        next == IF l.idx = 2 THEN [l EXCEPT !.pc = "e_type_private"]
                ELSE [l EXCEPT !.idx = @ + 1]
    IN
    /\ l.pc = "e_type_move"
    /\ IF new_category = None
       THEN /\ wf' = [wf EXCEPT ![p] = [l EXCEPT !.pc = "e_type_private"]]
            /\ UNCHANGED <<channels, faults>>
       ELSE IF channel_to_move = None
       THEN /\ wf' = [wf EXCEPT ![p] = next]
            /\ UNCHANGED <<channels, faults>>
       ELSE \E out \in ApiResponses :
              /\ Pay(out)
              /\ IF out = "ok"
                 THEN /\ channels' = [channels EXCEPT
                                         ![channel_to_move].category = new_category]
                      /\ wf' = [wf EXCEPT ![p] = Called(next, "edit_channel", FALSE, out, TRUE)]
                 ELSE /\ wf' = [wf EXCEPT ![p] = Called(RaiseInStage(l, "move_channel"), "edit_channel", FALSE, out, TRUE)]
                      /\ UNCHANGED channels
    /\ UNCHANGED <<rl, pw, clan_members, sync, roles, memberRoles, nextId, main_config, teams, lft_members,
                   files, ops>>

\* lines 2530-2546: the private voice channel is created, deleted or moved
\* line 2541: working_data["private_voice_channel_id"] = None
ForgetPrivateVoiceKeepsId(l) == l

ForgetPrivateVoice(l) == [l EXCEPT !.working_data.private_voice_channel_id = None]

ETypePrivate(p) ==
    LET l == wf[p]
        new_category == GetCategory(l.current_team_type)
        private_vc_id == l.working_data.private_voice_channel_id
        over == Advance(l, 2)
    IN
    /\ l.pc = "e_type_private"
    /\ CASE l.current_team_type = "Competitive" /\ private_vc_id = None ->
              IF new_category # None
              THEN \E out \in ApiResponses :
                     /\ Pay(out)
                     /\ IF out = "ok"
                        THEN /\ channels' = DictPut(channels, nextId,
                                  [kind |-> "voice",
                                   name |-> Truncate(<<LOCK, " ">> \o l.current_team_name),
                                   category |-> new_category,
                                   overwrites |->
                                       GetPermissionOverwrites(main_config, LiveRoles,
                                           l.team_role_obj, "Competitive",
                                           "private_voice_competitive")])
                             /\ nextId' = nextId + 1
                             /\ wf' = [wf EXCEPT ![p] =
                                  Called([over EXCEPT
                                     !.working_data.private_voice_channel_id = nextId,
                                     !.made = @ \cup {nextId}], "create_channel", FALSE, out, TRUE)]
                        ELSE /\ wf' = [wf EXCEPT ![p] = Called(RaiseInStage(l, "create_channel"), "create_channel", FALSE, out, TRUE)]
                             /\ UNCHANGED <<channels, nextId>>
              ELSE /\ wf' = [wf EXCEPT ![p] = over]
                   /\ UNCHANGED <<channels, nextId, faults>>
         [] l.current_team_type = "Community" /\ private_vc_id # None ->
              IF GetChannel(private_vc_id) # None
              THEN \E out \in ApiResponses :
                     /\ Pay(out)
                     /\ IF out = "ok"
                        THEN /\ channels' = DictDel(channels, private_vc_id)
                             /\ wf' = [wf EXCEPT ![p] =
                                  Called(ForgetPrivateVoice(over), "delete_channel", FALSE, out, TRUE)]
                        ELSE /\ wf' = [wf EXCEPT ![p] = Called(RaiseInStage(l, "delete_channel"), "delete_channel", FALSE, out, TRUE)]
                             /\ UNCHANGED channels
                     /\ UNCHANGED nextId
              ELSE /\ wf' = [wf EXCEPT ![p] =
                               ForgetPrivateVoice(over)]
                   /\ UNCHANGED <<channels, nextId, faults>>
         [] l.current_team_type = "Competitive" /\ private_vc_id # None
              /\ new_category # None /\ GetChannel(private_vc_id) # None
              /\ channels[private_vc_id].category # new_category ->
              \E out \in ApiResponses :
                 /\ Pay(out)
                 /\ IF out = "ok"
                    THEN /\ channels' = [channels EXCEPT
                                            ![private_vc_id].category = new_category]
                         /\ wf' = [wf EXCEPT ![p] = Called(over, "edit_channel", FALSE, out, TRUE)]
                    ELSE /\ wf' = [wf EXCEPT ![p] = Called(RaiseInStage(l, "move_channel"), "edit_channel", FALSE, out, TRUE)]
                         /\ UNCHANGED channels
                 /\ UNCHANGED nextId
         [] OTHER ->
              /\ wf' = [wf EXCEPT ![p] = over]
              /\ UNCHANGED <<channels, nextId, faults>>
    /\ UNCHANGED <<rl, pw, clan_members, sync, roles, memberRoles, main_config, teams, lft_members, files, ops>>

\* lines 2557-2566: the captain role leaves the old captain
ECaptainOld(p) ==
    LET l == wf[p]
        new_captain_id == l.changes.captain
        old_captain_id == l.team_data.captain_id
        captain_role_obj == GetCaptainRole
        next == [l EXCEPT !.pc = "e_capt_new"]
    IN
    /\ l.pc = "e_capt_old"
    /\ IF captain_role_obj # None /\ old_captain_id # None
          /\ old_captain_id # new_captain_id
          /\ captain_role_obj \in memberRoles[old_captain_id]
       THEN \E out \in ApiResponses :
              /\ Pay(out)
              /\ IF out = "ok"
                 THEN /\ memberRoles' = [memberRoles EXCEPT
                                            ![old_captain_id] = @ \ {captain_role_obj}]
                      /\ wf' = [wf EXCEPT ![p] = Called(next, "remove_roles", FALSE, out, TRUE)]
                 ELSE /\ wf' = [wf EXCEPT ![p] = Called(RaiseInStage(l, "revoke"), "remove_roles", FALSE, out, TRUE)]
                      /\ UNCHANGED memberRoles
       ELSE /\ wf' = [wf EXCEPT ![p] = next]
            /\ UNCHANGED <<memberRoles, faults>>
    /\ UNCHANGED <<rl, pw, clan_members, sync, roles, channels, nextId, main_config, teams, lft_members,
                   files, ops>>

\* lines 2569-2575 and 2580: the captain role goes to the new captain
ECaptainNew(p) ==
    LET l == wf[p]
        new_captain_id == l.changes.captain
        captain_role_obj == GetCaptainRole
        settled == [Advance(l, 3) EXCEPT !.working_data.captain_id = new_captain_id]
    IN
    /\ l.pc = "e_capt_new"
    /\ IF captain_role_obj # None /\ new_captain_id # None
          /\ captain_role_obj \notin memberRoles[new_captain_id]
       THEN \E out \in ApiResponses :
              /\ Pay(out)
              /\ IF out = "ok"
                 THEN /\ memberRoles' = [memberRoles EXCEPT
                                            ![new_captain_id] = @ \cup {captain_role_obj}]
                      /\ wf' = [wf EXCEPT ![p] =
                           Called(IF InList(new_captain_id, l.working_data.member_ids)
                           THEN settled
                           ELSE [l EXCEPT !.working_data.member_ids =
                                              Append(@, new_captain_id),
                                          !.pc = "e_capt_roles"], "add_roles", FALSE, out, TRUE)]
                 ELSE /\ wf' = [wf EXCEPT ![p] = Called(RaiseInStage(l, "grant"), "add_roles", FALSE, out, TRUE)]
                      /\ UNCHANGED memberRoles
       ELSE /\ wf' = [wf EXCEPT ![p] = settled]
            /\ UNCHANGED <<memberRoles, faults>>
    /\ UNCHANGED <<rl, pw, clan_members, sync, roles, channels, nextId, main_config, teams, lft_members,
                   files, ops>>

\* lines 2577-2580: team and type role for a captain who was not a member yet
ECaptainRoles(p) ==
    LET l == wf[p]
        new_captain_id == l.changes.captain
        roles_for_new_capt ==
            ({l.team_role_obj, GetGenericTeamTypeRole(l.current_team_type)} \ {None})
                \ memberRoles[new_captain_id]
        settled == [Advance(l, 3) EXCEPT !.working_data.captain_id = new_captain_id]
    IN
    /\ l.pc = "e_capt_roles"
    /\ IF roles_for_new_capt # {}
       THEN \E out \in ApiResponses :
              /\ Pay(out)
              /\ IF out = "ok"
                 THEN /\ memberRoles' = [memberRoles EXCEPT
                                            ![new_captain_id] = @ \cup roles_for_new_capt]
                      /\ wf' = [wf EXCEPT ![p] = Called(settled, "add_roles", FALSE, out, FALSE)]
                 ELSE /\ wf' = [wf EXCEPT ![p] = Called(RaiseInStage(l, "grant"), "add_roles", FALSE, out, FALSE)]
                      /\ UNCHANGED memberRoles
       ELSE /\ wf' = [wf EXCEPT ![p] = settled]
            /\ UNCHANGED <<memberRoles, faults>>
    /\ UNCHANGED <<rl, pw, clan_members, sync, roles, channels, nextId, main_config, teams, lft_members,
                   files, ops>>

\* lines 2595-2601: one member to add gets the team and type roles
EAddGrant(p) ==
    LET l == wf[p]
        member_id_to_add == l.changes.add_members[l.idx]
        roles_for_newly_added ==
            {l.team_role_obj, GetGenericTeamTypeRole(l.current_team_type)} \ {None}
        roles_to_assign == roles_for_newly_added \ memberRoles[member_id_to_add]
        skipped == IF l.idx = Len(l.changes.add_members) THEN Advance(l, 4)
                   ELSE [l EXCEPT !.idx = @ + 1]
        next == [l EXCEPT !.pc = "e_add_lft"]
    IN
    /\ l.pc = "e_add_grant"
    /\ IF InList(member_id_to_add, l.working_data.member_ids)
       THEN /\ wf' = [wf EXCEPT ![p] = skipped]
            /\ UNCHANGED <<memberRoles, faults>>
       ELSE IF roles_to_assign = {}
       THEN /\ wf' = [wf EXCEPT ![p] = next]
            /\ UNCHANGED <<memberRoles, faults>>
       ELSE \E out \in ApiResponses :
              /\ Pay(out)
              /\ IF out = "ok"
                 THEN /\ memberRoles' = [memberRoles EXCEPT
                                            ![member_id_to_add] = @ \cup roles_to_assign]
                      /\ wf' = [wf EXCEPT ![p] = Called(next, "add_roles", FALSE, out, TRUE)]
                 ELSE /\ wf' = [wf EXCEPT ![p] = Called(RaiseInStage(l, "grant"), "add_roles", FALSE, out, TRUE)]
                      /\ UNCHANGED memberRoles
    /\ UNCHANGED <<rl, pw, clan_members, sync, roles, channels, nextId, main_config, teams, lft_members,
                   files, ops>>

\* lines 2602-2608: looking-for-team role and list, then the id joins member_ids
EAddLft(p) ==
    LET l == wf[p]
        member_id_to_add == l.changes.add_members[l.idx]
        teamsuche_role_strip == GetTeamsucheRole
        appended == [l EXCEPT !.working_data.member_ids = Append(@, member_id_to_add)]
        next == IF l.idx = Len(l.changes.add_members) THEN Advance(appended, 4)
                ELSE [appended EXCEPT !.idx = @ + 1, !.pc = "e_add_grant"]
    IN
    /\ l.pc = "e_add_lft"
    /\ IF teamsuche_role_strip # None
          /\ teamsuche_role_strip \in memberRoles[member_id_to_add]
       THEN \E out \in ApiResponses :
              IF out = "ok"
              THEN /\ memberRoles' = [memberRoles EXCEPT
                                         ![member_id_to_add] = @ \ {teamsuche_role_strip}]
                   /\ wf' = [wf EXCEPT ![p] = Called(next, "remove_roles", FALSE, out, TRUE)]
                   /\ IF InList(member_id_to_add, lft_members)
                      THEN /\ lft_members' = ListWithout(lft_members, member_id_to_add)
                           /\ \E io \in IoOutcomes :
                                /\ Pay(io)
                                /\ files' = [files EXCEPT !.Teamsuche =
                                               SaveJson(@, lft_members', io)]
                      ELSE UNCHANGED <<lft_members, files, faults>>
              ELSE /\ Pay(out)
                   /\ wf' = [wf EXCEPT ![p] = Called(RaiseInStage(l, "revoke"), "remove_roles", FALSE, out, TRUE)]
                   /\ UNCHANGED <<memberRoles, lft_members, files>>
       ELSE /\ wf' = [wf EXCEPT ![p] = next]
            /\ UNCHANGED <<memberRoles, lft_members, files, faults>>
    /\ UNCHANGED <<rl, pw, clan_members, sync, roles, channels, nextId, main_config, teams, ops>>

\* lines 2626-2645: one member to remove; a failing remove_roles is only logged
ERemoveMember(p) ==
    LET l == wf[p]
        member_id_to_remove == l.changes.remove_members[l.idx]
        captain_role_obj_strip == GetCaptainRole
        roles_to_strip_from_removed ==
            {l.team_role_obj, GetGenericTeamTypeRole(l.current_team_type)} \ {None}
        actual_roles_to_strip ==
            IF member_id_to_remove = l.working_data.captain_id
            THEN roles_to_strip_from_removed \cup ({captain_role_obj_strip} \ {None})
            ELSE roles_to_strip_from_removed
        final_strip_list == actual_roles_to_strip \cap memberRoles[member_id_to_remove]
        step(x) == IF l.idx = Len(l.changes.remove_members) THEN Advance(x, 5)
                   ELSE [x EXCEPT !.idx = @ + 1]
        removed ==
            [l EXCEPT !.working_data.member_ids = ListRemoveFirst(@, member_id_to_remove),
                      !.working_data.captain_id =
                          IF member_id_to_remove = @ THEN None ELSE @]
    IN
    /\ l.pc = "e_rem_strip"
    /\ IF ~InList(member_id_to_remove, l.working_data.member_ids)
       THEN /\ wf' = [wf EXCEPT ![p] = step(l)]
            /\ UNCHANGED <<memberRoles, faults>>
       ELSE IF final_strip_list = {}
       THEN /\ wf' = [wf EXCEPT ![p] = step(removed)]
            /\ UNCHANGED <<memberRoles, faults>>
       ELSE \E out \in ApiResponses :
              /\ Pay(out)
              /\ IF out = "ok"
                 THEN /\ memberRoles' = [memberRoles EXCEPT
                                            ![member_id_to_remove] = @ \ final_strip_list]
                      /\ wf' = [wf EXCEPT ![p] = Called(step(removed), "remove_roles", FALSE, out, TRUE)]
                 ELSE /\ wf' = [wf EXCEPT ![p] = Called(step(Failed(removed, "strip")), "remove_roles", FALSE, out, TRUE)]
                      /\ UNCHANGED memberRoles
    /\ UNCHANGED <<rl, pw, clan_members, sync, roles, channels, nextId, main_config, teams, lft_members,
                   files, ops>>

\* lines 2649-2672: progress message, the old entry goes, the new one is written,
\* the in-memory partitions are reloaded
ESave(p) ==
    LET l == wf[p]
        moved == l.team_name # l.current_team_name \/ l.team_type # l.current_team_type
        drops == moved /\ l.team_name \in DOMAIN files[l.team_type]
    IN
    /\ l.pc = "e_save"
    /\ \E out \in WrappedOutcomes :
          IF out # "ok"
          THEN /\ Pay(out)
               /\ wf' = [wf EXCEPT ![p] =
                           Called([Failed(l, "save_progress") EXCEPT !.pc = "e_fatal"], "edit_message", TRUE, out, TRUE)]
               /\ UNCHANGED <<teams, files>>
          ELSE \E io_old \in IoOutcomes, io_new \in IoOutcomes :
               LET after_drop ==
                     IF drops
                     THEN [files EXCEPT ![l.team_type] =
                              SaveJson(@, DictDel(@, l.team_name), io_old)]
                     ELSE files
                   after_put ==
                     [after_drop EXCEPT ![l.current_team_type] =
                          SaveJson(@, DictPut(@, l.current_team_name, l.working_data),
                                   io_new)]
                   marked == IF io_old = "ok" /\ io_new = "ok" THEN l
                             ELSE Failed(l, "write")
               IN
               /\ drops \/ io_old = "ok"
               /\ Pay2(io_old, io_new)
               /\ files' = after_put
               /\ teams' = [Community |-> after_put.Community,
                            Competitive |-> after_put.Competitive]
               /\ wf' = Rebound([wf EXCEPT ![p] =
                           Called([marked EXCEPT !.persisted = TRUE, !.pc = "e_success_msg"], "edit_message", TRUE, out, TRUE)], p)
    /\ UNCHANGED <<rl, pw, clan_members, sync, roles, channels, memberRoles, nextId, main_config,
                   lft_members, ops>>

\* lines 2675-2680
ESuccessMsg(p) ==
    LET l == wf[p] IN
    /\ l.pc = "e_success_msg"
    /\ \E out \in WrappedOutcomes :
        /\ Pay(out)
        /\ wf' = [wf EXCEPT ![p] =
                   Called(IF out = "ok" THEN Return(l, "true")
                   ELSE [Failed(l, "final") EXCEPT !.pc = "e_fatal"], "edit_message", TRUE, out, FALSE)]
    /\ UNCHANGED <<rl, pw, clan_members, sync, roles, channels, memberRoles, nextId, main_config, teams,
                   lft_members, files, ops>>

\* lines 2682-2691: the fatal handler; its own message may fail silently
EFatal(p) ==
    LET l == wf[p] IN
    /\ l.pc = "e_fatal"
    /\ \E out \in WrappedOutcomes :
        /\ Pay(out)
        /\ wf' = [wf EXCEPT ![p] =
                   Called(Return(IF out = "ok" THEN l ELSE Failed(l, "notice"), "false"), "edit_message", TRUE, out, FALSE)]
    /\ UNCHANGED <<rl, pw, clan_members, sync, roles, channels, memberRoles, nextId, main_config, teams,
                   lft_members, files, ops>>

EditStep(p) ==
    \/ EFollowup(p) \/ ENoRoleMsg(p) \/ EStageMsg(p) \/ ERenameRole(p)
    \/ ERenameChannel(p) \/ ETypeHoist(p) \/ ETypeMemberRemove(p) \/ ETypeMemberAdd(p)
    \/ ETypeMove(p) \/ ETypePrivate(p) \/ ECaptainOld(p) \/ ECaptainNew(p)
    \/ ECaptainRoles(p) \/ EAddGrant(p) \/ EAddLft(p) \/ ERemoveMember(p)
    \/ ESave(p) \/ ESuccessMsg(p) \/ EFatal(p)

(***************************************************************************)
(* The guild outside the cog: an administrator deletes a team role by hand.*)
(***************************************************************************)
RoleDeletedByHand ==
    /\ \A p \in DOMAIN wf : Free(p)
    /\ faults < MaxFaults
    /\ faults' = faults + 1
    /\ \E id \in DOMAIN roles : DeleteRole(id)
    /\ wf' = [p \in DOMAIN wf |-> IdleLocals]    \* the finished workflow's locals are gone
    /\ UNCHANGED <<rl, pw, clan_members, sync, channels, nextId, main_config, teams, lft_members, files, ops>>

(***************************************************************************)
(* The cog: workflows run one after another on the shared state.           *)
(***************************************************************************)
Init == WfInit /\ rl = RLIdle

Next ==
    \/ \E p \in Procs :
          \/ StartCreate(p) \/ CreateStep(p)
          \/ StartDelete(p) \/ DeleteStep(p)
          \/ StartEdit(p) \/ EditStep(p)
    \/ RoleDeletedByHand

Spec == Init /\ [][Next]_vars
(***************************************************************************)
(* Edits of the rosters of existing teams: a guild of GuildSize members in *)
(* which two Community teams were created before, one with a full roster   *)
(* and one with a single member who is its captain.                        *)
(***************************************************************************)
\* What a successful create leaves for a Community team: its role, its two
\* channels and its record (src/mm_module.py:2102-2226).
ExistingTeam(name, role_id, member_ids, captain_id, config, live) ==
    LET defs == ChannelDefinitions(name, "Community")
        made == [i \in 1..Len(defs) |->
                    [kind |-> IF defs[i].type_detail = "text" THEN "text" ELSE "voice",
                     name |-> defs[i].name,
                     category |-> config.community_category_id,
                     overwrites |-> GetPermissionOverwrites(config, live \cup {role_id},
                                        role_id, "Community", defs[i].type_detail)]]
    IN [role |-> [name |-> name, hoist |-> FALSE],
        channels |-> [id \in (role_id + 1)..(role_id + Len(defs)) |-> made[id - role_id]],
        record |-> TeamRecord(role_id, role_id + 1, role_id + 2, captain_id,
                              member_ids, None)]

RosterInit ==
    LET full == [i \in 1..MAX_TEAM_SIZE |-> i]
        first == ExistingTeam(<<"a">>, Ids.first_fresh, full, 1, FullConfig, StaticRoles)
        second_role == Ids.first_fresh + 3
        second == ExistingTeam(<<"b", " ", "c">>, second_role, <<GuildSize>>, GuildSize,
                               FullConfig, StaticRoles \cup {Ids.first_fresh})
        generic == FullConfig.roles["Community Team"]
        partition == (<<"a">> :> first.record) @@ (<<"b", " ", "c">> :> second.record)
    IN
    /\ main_config = FullConfig
    /\ roles = (Ids.first_fresh :> first.role) @@ (second_role :> second.role)
    /\ channels = first.channels @@ second.channels
    /\ nextId = Ids.first_fresh + 6
    /\ memberRoles = [m \in 1..GuildSize |->
                        (IF m <= MAX_TEAM_SIZE THEN {Ids.first_fresh, generic} ELSE {})
                        \cup (IF m = GuildSize THEN {second_role, generic} ELSE {})
                        \cup (IF m \in {1, GuildSize} THEN {Ids.captain} ELSE {})]
    /\ lft_members = <<>>
    /\ files = [Community |-> partition, Competitive |-> EmptyDict, Teamsuche |-> <<>>,
                Clanmember |-> <<>>]
    /\ teams = [Community |-> partition, Competitive |-> EmptyDict]
    /\ wf = [p \in Procs |-> IdleLocals]
    /\ ops = MaxOps - 1
    /\ faults = 0
    /\ clan_members = <<>> /\ sync = SyncIdle /\ pw = PwIdle
    /\ rl = RLIdle

RosterNext ==
    \/ \E p \in Procs : StartEdit(p) \/ EditStep(p)
    \/ RoleDeletedByHand

SpecRoster == RosterInit /\ [][RosterNext]_vars

(***************************************************************************)
(* One workflow of any kind, run to its end by the event loop: a guild in  *)
(* which the Community team "a" exists, with user 2 as its only member,    *)
(* while user 1 is looking for a team.                                     *)
(***************************************************************************)
TermInit ==
    LET first == ExistingTeam(<<"a">>, Ids.first_fresh, <<2>>, None, FullConfig, StaticRoles)
        generic == FullConfig.roles["Community Team"]
        partition == (<<"a">> :> first.record)
    IN
    /\ main_config = FullConfig
    /\ roles = (Ids.first_fresh :> first.role)
    /\ channels = first.channels
    /\ nextId = Ids.first_fresh + 3
    /\ memberRoles = [m \in Members |->
                        IF m = 2 THEN {Ids.first_fresh, generic} ELSE {Ids.teamsuche}]
    /\ lft_members = <<1>>
    /\ files = [Community |-> partition, Competitive |-> EmptyDict, Teamsuche |-> <<1>>,
                Clanmember |-> <<>>]
    /\ teams = [Community |-> partition, Competitive |-> EmptyDict]
    /\ wf = [p \in Procs |-> IdleLocals]
    /\ ops = MaxOps - 1
    /\ faults = 0
    /\ clan_members = <<>> /\ sync = SyncIdle /\ pw = PwIdle
    /\ rl = RLIdle

\* The event loop resumes a workflow whenever the call or the delay it awaits
\* has returned.
WorkflowStep(p) == CreateStep(p) \/ DeleteStep(p) \/ EditStep(p)

FairSpec == TermInit /\ [][Next]_vars /\ \A p \in Procs : WF_vars(WorkflowStep(p))
(***************************************************************************)
(* Two workflows at a time.  Each command runs as its own task; between    *)
(* two awaits a task runs alone, at an await the other may run.  The cog   *)
(* takes no lock.                                                          *)
(***************************************************************************)
ConcProcs == {1, 2}

ConcInit ==
    LET first == ExistingTeam(<<"a">>, Ids.first_fresh, <<2>>, None, FullConfig, StaticRoles)
        generic == FullConfig.roles["Community Team"]
        partition == (<<"a">> :> first.record)
    IN
    /\ main_config = FullConfig
    /\ roles = (Ids.first_fresh :> first.role)
    /\ channels = first.channels
    /\ nextId = Ids.first_fresh + 3
    /\ memberRoles = [m \in Members |->
                        IF m = 2 THEN {Ids.first_fresh, generic} ELSE {Ids.teamsuche}]
    /\ lft_members = <<1>>
    /\ files = [Community |-> partition, Competitive |-> EmptyDict, Teamsuche |-> <<1>>,
                Clanmember |-> <<>>]
    /\ teams = [Community |-> partition, Competitive |-> EmptyDict]
    /\ wf = [p \in ConcProcs |-> IdleLocals]
    /\ ops = 0
    /\ faults = MaxFaults - 1
    /\ clan_members = <<>> /\ sync = SyncIdle /\ pw = PwIdle
    /\ rl = RLIdle

\* What the two users ask for: a Community team "b c" with user 1 as member and
\* captain, the deletion of a Community team, an edit of one kind.
ConcStartCreate(p) ==
    /\ StartCreate(p)
    /\ wf'[p].team_name = <<"b", " ", "c">> /\ wf'[p].team_type = "Community"
    /\ wf'[p].members = {1} /\ wf'[p].captain = 1

ConcStartDelete(p) == StartDelete(p) /\ wf'[p].team_type = "Community"

ConcStartEdit(p) == StartEdit(p) /\ StageCount(wf'[p].changes) = 1

ConcNext ==
    \E p \in ConcProcs :
        \/ ConcStartCreate(p) \/ CreateStep(p)
        \/ ConcStartDelete(p) \/ DeleteStep(p)
        \/ ConcStartEdit(p) \/ EditStep(p)

SpecConc == ConcInit /\ [][ConcNext]_vars

(***************************************************************************)
(* The resolver on its own: one call of _get_permission_overwrites, of the *)
(* cog (src/mm_module.py:1419-1631) or of the bot (src/main.py:1877-1936), *)
(* on a role configuration drawn from PermConfigs.                         *)
(***************************************************************************)
\* A role of the guild that no key of main_config["roles"] names.
ExtraRole == Ids.first_fresh + 1

\* An id that names no role of the guild (a role deleted since it was configured).
DeadRole == Ids.first_fresh + 2

\* main_config["roles"] as an administrator may have filled it: every key
\* with its own role, or one key left empty, naming a deleted role, or naming
\* the role another key names.
PermConfigs ==
    {[FullConfig EXCEPT !.roles[k] = v] :
        k \in RoleKeys,
        v \in {None, DeadRole, StaffRoleId["Rocket League"], StaffRoleId["Rookie Caster"],
               StaffRoleId["Coach"]}}

\* main_config["additional_roles"][channel_type], a list of role ids.
AdditionalIds == {StaffRoleId["Co-Lead"], StaffRoleId["Rocket League"],
                  StaffRoleId["Rookie Caster"], ExtraRole, DeadRole}

AdditionalRoleLists ==
    {<<>>} \cup {<<a>> : a \in AdditionalIds}
           \cup {<<a, b>> : a \in AdditionalIds, b \in AdditionalIds}

ChannelTypes == {"text", "voice_community", "voice_competitive", "private_voice_competitive"}

\* `"voice" in channel_type`
IsVoice(channel_type) == channel_type # "text"

\* src/main.py: the lists adm, cl, vc_r, vc_m of each branch, in loop order.
MainEntries(channel_type) ==
    CASE channel_type = "text" ->
           << <<"Discord Admin", ViewSendManage>>, <<"Member Management", ViewSendManage>>,
              <<"Co-Lead", ViewSend>> >>
      [] channel_type = "voice_community" ->
           << <<"Co-Lead", ViewConnect>>, <<"Coach", ViewConnect>>, <<"Caster", ViewConnect>>,
              <<"Co-Caster", ViewConnect>>, <<"Rookie Caster", ViewConnect>>,
              <<"Competitive Team", ViewConnect>>, <<"Community Team", ViewConnect>>,
              <<"Ehrenmember", ViewConnect>>, <<"Mafia", ViewConnect>>,
              <<"Discord Admin", ViewConnectManage>>,
              <<"Member Management", ViewConnectManage>> >>
      [] channel_type = "voice_competitive" ->
           << <<"Coach", ViewConnect>>, <<"Caster", ViewConnect>>, <<"Co-Caster", ViewConnect>>,
              <<"Rookie Caster", ViewConnect>>, <<"Competitive Team", ViewConnect>>,
              <<"Community Team", ViewConnect>>, <<"Ehrenmember", ViewConnect>>,
              <<"Mafia", ViewConnect>>, <<"Co-Lead", ViewConnectManage>>,
              <<"Discord Admin", ViewConnectManage>>,
              <<"Member Management", ViewConnectManage>> >>
      [] channel_type = "private_voice_competitive" ->
           << <<"Caster", ViewConnect>>, <<"Co-Caster", ViewConnect>>, <<"Mafia", ViewConnect>>,
              <<"Co-Lead", ViewConnectManage>>, <<"Discord Admin", ViewConnectManage>>,
              <<"Member Management", ViewConnectManage>> >>
      [] OTHER -> <<>>

\* The key whose role a voice class denies connect (no_c in src/main.py; the
\* connect=False entry in src/mm_module.py).
NoConnectKey(channel_type) ==
    IF channel_type = "private_voice_competitive" THEN "Rookie Caster" ELSE "Rocket League"

\* src/main.py: overwrites as they stand when the loop over add_r_ids begins.
MainBaseOverwrites(cfg, live_roles, team_role, channel_type) ==
    LET default == DictPut(EmptyDict, Ids.everyone, Perm(Deny, Unset, Unset, Unset, Unset))
        staff == ApplyEntries(default, MainEntries(channel_type), cfg, live_roles)
        no_c == RoleFromMainCfg(cfg, live_roles, NoConnectKey(channel_type))
        \* `if no_c and (no_c not in overwrites or overwrites[no_c].connect is not True)`
        denied == IF /\ IsVoice(channel_type)
                     /\ no_c # None
                     /\ (no_c \notin DOMAIN staff \/ staff[no_c].connect # Allow)
                  THEN DictPut(staff, no_c, ViewNoConnect)
                  ELSE staff
    IN DictPut(denied, team_role,
               IF IsVoice(channel_type) THEN ViewConnectMove ELSE ViewSend)

\* `cp = overwrites[r]; cp.view_channel=True`, then connect or send_messages
\* set only where it is None.
LayeredOntoViewOnly(cp, is_voice) == Perm(Allow, Unset, Unset, Unset, Unset)

LayeredOnto(cp, is_voice) ==
    [cp EXCEPT !.view_channel = Allow,
               !.connect = IF is_voice /\ @ = Unset THEN Allow ELSE @,
               !.send_messages = IF ~is_voice /\ @ = Unset THEN Allow ELSE @]

RECURSIVE LayerAdditionalRoles(_, _, _, _)
\* `for r_id in add_r_ids: if r := guild.get_role(r_id): ...`
LayerAdditionalRoles(overwrites, add_r_ids, live_roles, is_voice) ==
    IF add_r_ids = <<>> THEN overwrites
    ELSE LET r == Head(add_r_ids)
             next == IF r \notin live_roles THEN overwrites
                     ELSE IF r \notin DOMAIN overwrites
                          THEN DictPut(overwrites, r,
                                       IF is_voice THEN ViewConnect ELSE ViewSend)
                          ELSE DictPut(overwrites, r, LayeredOnto(overwrites[r], is_voice))
         IN LayerAdditionalRoles(next, Tail(add_r_ids), live_roles, is_voice)

\* A team role and a role outside the configuration exist; the resolver is
\* about to be called for one channel of a team.
PermInit ==
    /\ rl = RLIdle
    /\ roles = DictPut(DictPut(EmptyDict, Ids.first_fresh, [name |-> <<"a">>, hoist |-> FALSE]),
                       ExtraRole, [name |-> <<"b">>, hoist |-> FALSE])
    /\ channels = EmptyDict /\ nextId = Ids.first_fresh + 3
    /\ main_config = FullConfig
    /\ memberRoles = [m \in Members |-> {}]
    /\ lft_members = <<>>
    /\ files = [Community |-> EmptyDict, Competitive |-> EmptyDict, Teamsuche |-> <<>>,
                Clanmember |-> <<>>]
    /\ teams = [Community |-> EmptyDict, Competitive |-> EmptyDict]
    /\ wf = [p \in Procs |-> IdleLocals]
    /\ ops = 0 /\ faults = 0
    /\ clan_members = <<>> /\ sync = SyncIdle
    /\ \E cfg \in PermConfigs, add \in AdditionalRoleLists, tt \in Types, ct \in ChannelTypes :
          pw = [PwIdle EXCEPT !.pc = "input", !.cfg = cfg, !.add_r_ids = add,
                              !.team_type = tt, !.channel_type = ct,
                              !.team_role = Ids.first_fresh]

\* MMHelferCog._get_permission_overwrites (src/mm_module.py)
PwCog ==
    /\ pw.pc = "input"
    /\ pw' = [pw EXCEPT !.pc = "cog",
                        !.out = GetPermissionOverwrites(pw.cfg, LiveRoles, pw.team_role,
                                                        pw.team_type, pw.channel_type)]
    /\ UNCHANGED <<rl, roles, channels, memberRoles, nextId, main_config, teams,
                   lft_members, files, wf, ops, faults, clan_members, sync>>

\* _get_permission_overwrites of src/main.py, which reads no team type
PwMain ==
    /\ pw.pc = "input"
    /\ LET base == MainBaseOverwrites(pw.cfg, LiveRoles, pw.team_role, pw.channel_type)
       IN pw' = [pw EXCEPT !.pc = "main", !.base = base,
                           !.out = LayerAdditionalRoles(base, pw.add_r_ids, LiveRoles,
                                                        IsVoice(pw.channel_type))]
    /\ UNCHANGED <<rl, roles, channels, memberRoles, nextId, main_config, teams,
                   lft_members, files, wf, ops, faults, clan_members, sync>>

PermNext == PwCog \/ PwMain

SpecPerm == PermInit /\ [][PermNext]_vars

(***************************************************************************)
(* The two role lists: add_members_to_lft, add_members_to_clan             *)
(* (src/mm_module.py:1310-1397), _synchronize_role_lists_for_guild         *)
(* (1242-1264) and on_ready (1229-1240), with roles granted and revoked by *)
(* hand in between.                                                        *)
(***************************************************************************)
\* Calls and events of one run.
MaxSyncSteps == 2

GetClanMemberRole == GetRole(main_config.clan_member_role_id)

\* {member.id for member in guild.members if role in member.roles}
Holders(role, member_roles) == {m \in DOMAIN member_roles : role \in member_roles[m]}

\* ids_added_this_run / ids_added_cfg_list: a member already listed and holding
\* the role is skipped, one whose add_roles raises is left out.
IdsAdded(list, role, member_roles, batch, failing) ==
    {m \in batch : /\ ~(InList(m, list) /\ role \in member_roles[m])
                   /\ ~(role \notin member_roles[m] /\ m \in failing)}

ExtendedKeepingAll(list, ids) == list \o SetToList(ids)

\* `if ids: self.x.extend(ids); self.x = list(set(self.x))`
Extended(list, ids) ==
    IF ids = {} THEN list ELSE SetToList(ListSet(list) \cup ids)

\* member.add_roles(role) for every processed member lacking it
Granted(role, member_roles, batch, failing) ==
    [m \in DOMAIN member_roles |->
        IF m \in batch /\ ~(role \notin member_roles[m] /\ m \in failing)
        THEN member_roles[m] \cup {role} ELSE member_roles[m]]

ListsDifferAlways(stored, live) == TRUE

\* `if stored_lft_ids != current_lft_role_members_ids`
ListsDiffer(stored, live) == ListSet(stored) # live

Logged(op, batch, failed, writes) ==
    sync' = [sync EXCEPT !.pc = IF op = "on_ready" THEN "ready" ELSE @,
                         !.log = Append(@, [op |-> op, batch |-> batch,
                                            failed |-> failed, writes |-> writes])]

\* The lists as loaded from their files, the roles as members hold them, and
\* the bot about to become ready.
SyncInit ==
    /\ rl = RLIdle
    /\ roles = EmptyDict /\ channels = EmptyDict /\ nextId = Ids.first_fresh
    /\ main_config \in {FullConfig, [FullConfig EXCEPT !.clan_member_role_id = None]}
    /\ memberRoles \in [Members -> SUBSET {Ids.teamsuche, Ids.clan}]
    /\ \E L \in SUBSET Members, C \in SUBSET Members :
          /\ lft_members = SetToList(L)
          /\ clan_members = SetToList(C)
    /\ files = [Community |-> EmptyDict, Competitive |-> EmptyDict,
                Teamsuche |-> lft_members, Clanmember |-> clan_members]
    /\ teams = [Community |-> EmptyDict, Competitive |-> EmptyDict]
    /\ wf = [p \in Procs |-> IdleLocals]
    /\ ops = 0 /\ faults = 0
    /\ pw = PwIdle
    /\ sync = [pc |-> "ready_pending",
               start |-> [lft |-> lft_members, clan |-> clan_members, roles |-> memberRoles],
               log |-> <<>>]

\* add_members_to_lft
AddMembersToLft ==
    /\ sync.pc # "unused" /\ Len(sync.log) < MaxSyncSteps
    /\ \E batch \in (SUBSET GuildMembers) \ {{}}, io \in IoOutcomes :
       \E failing \in SUBSET {m \in batch : Ids.teamsuche \notin memberRoles[m]} :
          LET teamsuche_role == GetTeamsucheRole
              ids == IdsAdded(lft_members, teamsuche_role, memberRoles, batch, failing)
              cost == (IF failing = {} THEN 0 ELSE 1) + Cost(io)
          IN IF teamsuche_role = None
             THEN /\ failing = {} /\ io = "ok"
                  /\ Logged("add_lft", batch, TRUE, 0)
                  /\ UNCHANGED <<memberRoles, lft_members, files, faults>>
             ELSE /\ faults + cost <= MaxFaults /\ faults' = faults + cost
                  /\ ids = {} => io = "ok"
                  /\ memberRoles' = Granted(teamsuche_role, memberRoles, batch, failing)
                  /\ lft_members' = Extended(lft_members, ids)
                  /\ files' = IF ids = {} THEN files
                              ELSE [files EXCEPT !.Teamsuche = SaveJson(@, lft_members', io)]
                  /\ Logged("add_lft", batch, failing # {}, IF ids = {} THEN 0 ELSE 1)
    /\ UNCHANGED <<rl, roles, channels, nextId, main_config, teams, wf, ops,
                   clan_members, pw>>

\* add_members_to_clan
AddMembersToClan ==
    /\ sync.pc # "unused" /\ Len(sync.log) < MaxSyncSteps
    /\ \E batch \in (SUBSET GuildMembers) \ {{}}, io \in IoOutcomes :
       \E failing \in SUBSET {m \in batch : Ids.clan \notin memberRoles[m]} :
          LET clan_role == GetClanMemberRole
              ids == IdsAdded(clan_members, clan_role, memberRoles, batch, failing)
              cost == (IF failing = {} THEN 0 ELSE 1) + Cost(io)
          IN IF clan_role = None
             THEN /\ failing = {} /\ io = "ok"
                  /\ Logged("add_clan", batch, TRUE, 0)
                  /\ UNCHANGED <<memberRoles, clan_members, files, faults>>
             ELSE /\ faults + cost <= MaxFaults /\ faults' = faults + cost
                  /\ ids = {} => io = "ok"
                  /\ memberRoles' = Granted(clan_role, memberRoles, batch, failing)
                  /\ clan_members' = Extended(clan_members, ids)
                  /\ files' = IF ids = {} THEN files
                              ELSE [files EXCEPT !.Clanmember = SaveJson(@, clan_members', io)]
                  /\ Logged("add_clan", batch, failing # {}, IF ids = {} THEN 0 ELSE 1)
    /\ UNCHANGED <<rl, roles, channels, nextId, main_config, teams, wf, ops,
                   lft_members, pw>>

\* The lists, their files and the log after one reconciliation.
SynchronizedLists(io_lft, io_clan) ==
    LET teamsuche_role == GetTeamsucheRole
        clan_member_role == GetClanMemberRole
        current_lft == Holders(teamsuche_role, memberRoles)
        current_clan == Holders(clan_member_role, memberRoles)
        write_lft == teamsuche_role # None /\ ListsDiffer(lft_members, current_lft)
        write_clan == clan_member_role # None /\ ListsDiffer(clan_members, current_clan)
        cost == Cost(io_lft) + Cost(io_clan)
    IN /\ ~write_lft => io_lft = "ok"
       /\ ~write_clan => io_clan = "ok"
       /\ faults + cost <= MaxFaults /\ faults' = faults + cost
       /\ lft_members' = IF write_lft THEN SetToList(current_lft) ELSE lft_members
       /\ clan_members' = IF write_clan THEN SetToList(current_clan) ELSE clan_members
       /\ files' = [files EXCEPT
                      !.Teamsuche = IF write_lft THEN SaveJson(@, lft_members', io_lft) ELSE @,
                      !.Clanmember = IF write_clan THEN SaveJson(@, clan_members', io_clan)
                                     ELSE @]
       /\ Logged("on_ready", {}, FALSE,
                 (IF write_lft THEN 1 ELSE 0) + (IF write_clan THEN 1 ELSE 0))

SynchronizeBothWays(io_lft, io_clan) ==
    /\ SynchronizedLists(io_lft, io_clan)
    /\ memberRoles' = [m \in GuildMembers |->
                         IF InList(m, lft_members) /\ GetTeamsucheRole # None
                         THEN memberRoles[m] \cup {GetTeamsucheRole} ELSE memberRoles[m]]
    /\ UNCHANGED <<rl, roles, channels, nextId, main_config, teams, wf, ops, pw>>

\* _synchronize_role_lists_for_guild
SynchronizeRoleListsForGuild(io_lft, io_clan) ==
    /\ SynchronizedLists(io_lft, io_clan)
    /\ UNCHANGED <<rl, roles, channels, memberRoles, nextId, main_config, teams, wf,
                   ops, pw>>

\* on_ready: once when the bot has connected and again whenever the gateway
\* session is re-established; nothing else calls the reconciliation.
OnReady ==
    /\ sync.pc \in {"ready_pending", "ready"} /\ Len(sync.log) < MaxSyncSteps
    /\ \E io_lft \in IoOutcomes, io_clan \in IoOutcomes :
          SynchronizeRoleListsForGuild(io_lft, io_clan)

\* The first on_ready, which the library delivers once the bot is connected.
FirstReady == sync.pc = "ready_pending" /\ OnReady

\* A moderator grants or revokes one of the two roles in the Discord client.
RoleChangedByHand ==
    /\ sync.pc # "unused" /\ Len(sync.log) < MaxSyncSteps
    /\ \E m \in GuildMembers, role \in {Ids.teamsuche, Ids.clan} :
          memberRoles' = [memberRoles EXCEPT ![m] =
                            IF role \in @ THEN @ \ {role} ELSE @ \cup {role}]
    /\ Logged("by_hand", {}, FALSE, 0)
    /\ UNCHANGED <<rl, roles, channels, nextId, main_config, teams, wf, ops, faults,
                   lft_members, clan_members, files, pw>>

SyncNext == AddMembersToLft \/ AddMembersToClan \/ OnReady \/ RoleChangedByHand

SpecSync == SyncInit /\ [][SyncNext]_vars

\* Only the first on_ready is certain to come.
FairSpecSync == SpecSync /\ WF_vars(FirstReady)
(***************************************************************************)
(* remove_members_from_lft and remove_members_from_clan                    *)
(* (src/mm_module.py:1344-1417), with roles granted and revoked by hand in *)
(* between.                                                                *)
(***************************************************************************)
\* member.remove_roles(role) for every member of the batch holding it; for
\* the members in `failing` the call raises and is logged
Revoked(role, member_roles, batch, failing) ==
    [m \in DOMAIN member_roles |->
        IF m \in batch /\ role # None /\ m \notin failing
        THEN member_roles[m] \ {role} ELSE member_roles[m]]

\* ids_to_remove_from_file / ids_rem_instance, and the list filtered by them
WithoutIds(list, batch) == SelectSeq(list, LAMBDA mid : mid \notin batch)

\* remove_members_from_lft
RemoveMembersFromLft ==
    /\ sync.pc # "unused" /\ Len(sync.log) < MaxSyncSteps
    /\ \E batch \in (SUBSET GuildMembers) \ {{}}, io \in IoOutcomes :
       LET teamsuche_role == GetTeamsucheRole IN
       \E failing \in SUBSET {m \in batch : teamsuche_role # None
                                             /\ teamsuche_role \in memberRoles[m]} :
          LET ids_to_remove_from_file == {m \in batch : InList(m, lft_members)}
              cost == (IF failing = {} THEN 0 ELSE 1) + Cost(io)
          IN /\ faults + cost <= MaxFaults /\ faults' = faults + cost
             /\ ids_to_remove_from_file = {} => io = "ok"
             /\ memberRoles' = Revoked(teamsuche_role, memberRoles, batch, failing)
             /\ lft_members' = WithoutIds(lft_members, ids_to_remove_from_file)
             /\ files' = IF ids_to_remove_from_file = {} THEN files
                         ELSE [files EXCEPT !.Teamsuche = SaveJson(@, lft_members', io)]
             /\ Logged("remove_lft", batch, failing # {},
                       IF ids_to_remove_from_file = {} THEN 0 ELSE 1)
    /\ UNCHANGED <<rl, roles, channels, nextId, main_config, teams, wf, ops,
                   clan_members, pw>>

\* remove_members_from_clan
RemoveMembersFromClan ==
    /\ sync.pc # "unused" /\ Len(sync.log) < MaxSyncSteps
    /\ \E batch \in (SUBSET GuildMembers) \ {{}}, io \in IoOutcomes :
       LET clan_role == GetClanMemberRole IN
       \E failing \in SUBSET {m \in batch : clan_role # None
                                             /\ clan_role \in memberRoles[m]} :
          LET ids_rem_instance == {m \in batch : InList(m, clan_members)}
              cost == (IF failing = {} THEN 0 ELSE 1) + Cost(io)
          IN /\ faults + cost <= MaxFaults /\ faults' = faults + cost
             /\ ids_rem_instance = {} => io = "ok"
             /\ memberRoles' = Revoked(clan_role, memberRoles, batch, failing)
             /\ clan_members' = WithoutIds(clan_members, ids_rem_instance)
             /\ files' = IF ids_rem_instance = {} THEN files
                         ELSE [files EXCEPT !.Clanmember = SaveJson(@, clan_members', io)]
             /\ Logged("remove_clan", batch, failing # {},
                       IF ids_rem_instance = {} THEN 0 ELSE 1)
    /\ UNCHANGED <<rl, roles, channels, nextId, main_config, teams, wf, ops,
                   lft_members, pw>>

RemoveNext == RemoveMembersFromLft \/ RemoveMembersFromClan \/ RoleChangedByHand

SpecRemove == SyncInit /\ [][RemoveNext]_vars
RLFinished == rl.pc \in {"returned", "raised"}

\* C10: handle_rate_limit invokes the action at most max_retries times; every
\* invocation but the last one answered 429; the wait after the i-th 429 is the
\* server's retry_after when one is given and base_delay * 2^(i-1) otherwise; and
\* when max_retries invocations were all answered 429 the call ends by raising.
C10_BoundedRetryWithBackoff ==
    /\ Len(rl.responses) <= rl.max_retries
    /\ \A i \in 1..(Len(rl.responses) - 1) : rl.responses[i].kind = "rl"
    /\ (rl.pc = "call") => /\ Len(rl.waits) = Len(rl.responses)
                           /\ \A i \in 1..Len(rl.responses) : rl.responses[i].kind = "rl"
    /\ \A i \in 1..Len(rl.waits) :
          /\ rl.responses[i].kind = "rl"
          /\ rl.waits[i] = IF rl.responses[i].has_hint
                             THEN rl.responses[i].retry_after
                             ELSE rl.base_delay * Pow2(i - 1)
    /\ (RLFinished /\ Len(rl.responses) = rl.max_retries
          /\ \A i \in 1..Len(rl.responses) : rl.responses[i].kind = "rl")
            => (rl.pc = "raised" /\ Len(rl.waits) = rl.max_retries)
    /\ (rl.pc = "returned") => rl.responses[Len(rl.responses)].kind = "ok"

\* C10 witness: the default five attempts were all rate-limited, with and without
\* a server hint, and the failure was raised.
C10_Witness ==
    /\ rl.pc = "raised"
    /\ rl.max_retries = MAX_RETRIES_DEFAULT
    /\ Len(rl.waits) = MAX_RETRIES_DEFAULT
    /\ \E i \in 1..Len(rl.responses) : rl.responses[i].has_hint
    /\ ~rl.responses[MAX_RETRIES_DEFAULT].has_hint
    /\ rl.waits[MAX_RETRIES_DEFAULT] = rl.base_delay * 16

\* C13: a response that is neither success nor a 429 (another HTTP status or a
\* non-HTTP exception) ends handle_rate_limit by raising: it is the last
\* invocation of the action, and no wait follows it.
C13_OtherErrorsRaiseAtOnce ==
    \A i \in 1..Len(rl.responses) :
        rl.responses[i].kind \in {"http", "exc"}
            => /\ i = Len(rl.responses)
               /\ rl.pc = "raised"
               /\ rl.pending = 0
               /\ Len(rl.waits) = i - 1

\* C13 witness: the first invocation failed with a non-429 HTTP error and the
\* call raised after that single attempt, four attempts unused and no wait made.
C13_Witness ==
    /\ rl.pc = "raised"
    /\ rl.max_retries = MAX_RETRIES_DEFAULT
    /\ Len(rl.responses) = 1
    /\ rl.responses[1].kind = "http"
    /\ rl.waits = <<>>
(***************************************************************************)
(* Properties of the create workflow.                                      *)
(***************************************************************************)
CreateDone(l) == l.op = "create" /\ l.pc = "done"

\* The name was in neither partition when the workflow started.
FreshName(l) ==
    /\ l.team_name \notin DOMAIN l.start_files.Community
    /\ l.team_name \notin DOMAIN l.start_files.Competitive

InRegistry(team_name) ==
    team_name \in DOMAIN files.Community \/ team_name \in DOMAIN files.Competitive

LiveObjects == DOMAIN roles \cup DOMAIN channels

\* The calls of stages 1-3 and the progress updates.
StageCallFailures == {"progress", "create_role", "create_channel", "grant", "revoke"}

\* C1: a create on a fresh name in which a role creation, a channel creation, a
\* member role grant or revoke, or a progress update failed has, once it is
\* over, left no Registry entry for the name and none of the roles and channels
\* it created.
C1_RollbackComplete ==
    \A p \in Procs :
        LET l == wf[p] IN
        (CreateDone(l) /\ FreshName(l) /\ l.failed \cap StageCallFailures # {})
            => /\ ~InRegistry(l.team_name)
               /\ l.made \cap LiveObjects = {}

\* C1, the failing run: the progress update after the role creation failed, the
\* handler's own first update failed too, and the workflow ended by raising with
\* the role it created still in the guild.
C1_Witness ==
    \E p \in Procs :
        LET l == wf[p] IN
        /\ CreateDone(l) /\ FreshName(l)
        /\ l.failed = {"progress", "rollback_notice"}
        /\ l.result = "raised"
        /\ l.created_role \in DOMAIN roles

\* C2: when create returns success the Registry holds exactly one record for the
\* name, under the requested type, and its role id and channel ids are live.
C2_SuccessMeansOneLiveRecord ==
    \A p \in Procs :
        LET l == wf[p] IN
        (CreateDone(l) /\ l.result = "true")
            => /\ l.team_name \in DOMAIN files[l.team_type]
               /\ l.team_name \notin DOMAIN files[OtherType(l.team_type)]
               /\ LET rec == files[l.team_type][l.team_name] IN
                  /\ rec.role_id \in DOMAIN roles
                  /\ rec.text_channel_id \in DOMAIN channels
                  /\ rec.voice_channel_id \in DOMAIN channels
                  /\ l.team_type = "Competitive"
                        => rec.private_voice_channel_id \in DOMAIN channels

\* C2, the failing run: create returned success and the partition file has no
\* record for the name.
C2_Witness ==
    \E p \in Procs :
        LET l == wf[p] IN
        /\ CreateDone(l) /\ l.result = "true"
        /\ l.team_name \notin DOMAIN files[l.team_type]
        /\ l.team_name \in DOMAIN teams[l.team_type]

C4_WriteFailureRollsBack ==
    \A p \in Procs :
        LET l == wf[p] IN
        /\ (CreateDone(l) /\ "write" \in l.failed)
              => /\ l.result # "true"
                 /\ l.made \cap LiveObjects = {}
                 /\ ~InRegistry(l.team_name)
        /\ (CreateDone(l) /\ l.result = "true")
              => l.team_name \in DOMAIN files[l.team_type]

\* C4, the failing run: the only failure was the write of the partition file, and
\* create returned success with its role and channels in place.
C4_Witness ==
    \E p \in Procs :
        LET l == wf[p] IN
        /\ CreateDone(l)
        /\ l.failed = {"write"}
        /\ l.result = "true"
        /\ l.made # {} /\ l.made \subseteq LiveObjects

(***************************************************************************)
(* Properties of the delete workflow.                                      *)
(***************************************************************************)
DeleteDone(l) == l.op = "delete" /\ l.pc = "done"

\* The lookup after the reload found the record.
Found(l) == l.found

AllStages == {"MemberRoleStrip", "ChannelsDelete", "RoleDelete", "ConfigRemove"}

\* C5: a delete that found the record has, when it returns, entered all four
\* stages, whatever call failed on the way, and returns false if any call or
\* write failed.
C5_AllStagesAttempted ==
    \A p \in Procs :
        LET l == wf[p] IN
        (DeleteDone(l) /\ Found(l))
            => /\ l.stages = AllStages
               /\ l.failed # {} => l.result = "false"

\* C5, the failing run: the progress update before the channel stage failed, and
\* the delete returned without touching channels, role or Registry entry.
C5_Witness ==
    \E p \in Procs :
        LET l == wf[p] IN
        /\ DeleteDone(l) /\ Found(l)
        /\ l.failed = {"progress"}
        /\ l.stages = {"MemberRoleStrip"}
        /\ l.team_data.role_id \in DOMAIN roles
        /\ l.team_data.text_channel_id \in DOMAIN channels
        /\ l.team_name \in DOMAIN files[l.team_type]

EditDone(l) == l.op = "edit" /\ l.pc = "done"

TeamPartitionsAsAtStart(l) ==
    /\ files.Community = l.start_files.Community
    /\ files.Competitive = l.start_files.Competitive

\* C7: an edit writes neither team partition before its save step, which comes
\* after every requested stage; and an edit in which a stage raised returns
\* false with both partitions, hence the team's record, its key and its
\* partition, exactly as they were when the edit started.
C7_NoWriteBeforeStagesComplete ==
    \A p \in Procs :
        LET l == wf[p] IN
        /\ (l.op = "edit" /\ ~l.persisted) => TeamPartitionsAsAtStart(l)
        /\ (l.op = "edit" /\ l.pc \in ({"e_stage_msg"} \cup (ListSet(StagePc) \ {"e_save"})))
              => ~l.persisted
        /\ (EditDone(l) /\ l.stage_raised)
              => /\ l.result = "false"
                 /\ ~l.persisted
                 /\ TeamPartitionsAsAtStart(l)
                 /\ files[l.team_type][l.team_name] = l.team_data

\* C7 witness: an edit failed in a stage after it had already renamed the role.
C7_Witness ==
    \E p \in Procs :
        LET l == wf[p] IN
        /\ EditDone(l) /\ l.stage_raised
        /\ l.changes.name # NoName
        /\ roles[l.team_role_obj].name = l.changes.name
        /\ l.team_name \in DOMAIN files[l.team_type]

RenameOnly(changes) ==
    /\ changes.name # NoName
    /\ changes.type = NoType
    /\ ~changes.has_captain
    /\ changes.add_members = <<>>
    /\ changes.remove_members = <<>>

\* C8: a successful edit that only renames has removed the Registry entry under
\* the old name and holds one under the new name, in the same partition, with
\* the original role id, channel ids and member ids; role and channels carry the
\* new name; no role or channel was created or deleted.
C8_RenameOnly ==
    \A p \in Procs :
        LET l == wf[p] IN
        (EditDone(l) /\ l.result = "true" /\ RenameOnly(l.changes))
            => /\ l.team_name \notin DOMAIN files[l.team_type]
               /\ l.changes.name \in DOMAIN files[l.team_type]
               /\ LET rec == files[l.team_type][l.changes.name] IN
                  /\ rec.role_id = l.team_data.role_id
                  /\ rec.text_channel_id = l.team_data.text_channel_id
                  /\ rec.voice_channel_id = l.team_data.voice_channel_id
                  /\ rec.private_voice_channel_id = l.team_data.private_voice_channel_id
                  /\ rec.member_ids = l.team_data.member_ids
               /\ roles[l.team_data.role_id].name = l.changes.name
               /\ \A i \in 1..Len(ChannelKeys) :
                     LET id == l.team_data[ChannelKeys[i]] IN
                     id \in DOMAIN channels =>
                        channels[id].name = RenamedChannelName(ChannelKeys[i], l.changes.name)
               /\ l.made = {}
               /\ DOMAIN roles = DOMAIN l.start_roles
               /\ DOMAIN channels = DOMAIN l.start_channels

\* C8, the failing run: a rename-only edit returned success while the write that
\* drops the old entry had failed, so the old name is still in the Registry.
C8_Witness ==
    \E p \in Procs :
        LET l == wf[p] IN
        /\ EditDone(l) /\ l.result = "true" /\ RenameOnly(l.changes)
        /\ l.failed = {"write"}
        /\ l.team_name \in DOMAIN files[l.team_type]

NoConnectRole == StaffRoleId["Rookie Caster"]

\* C9: a successful edit retyping a Community team to Competitive has created
\* exactly one channel, a voice channel whose overwrites deny connect to the
\* no-connect role; the team's text and voice channels are in the Competitive
\* category; and the Competitive partition holds the record with that channel
\* as private_voice_channel_id.
C9_RetypeToCompetitive ==
    \A p \in Procs :
        LET l == wf[p] IN
        (EditDone(l) /\ l.result = "true" /\ l.team_type = "Community"
            /\ l.changes.type = "Competitive")
            => /\ Cardinality(l.made) = 1
               /\ \A id \in l.made :
                    /\ id \in DOMAIN channels
                    /\ channels[id].kind = "voice"
                    /\ NoConnectRole \in DOMAIN channels[id].overwrites
                    /\ channels[id].overwrites[NoConnectRole].connect = Deny
                    /\ l.current_team_name \in DOMAIN files.Competitive
                    /\ files.Competitive[l.current_team_name].private_voice_channel_id = id
               /\ \A key \in {"text_channel_id", "voice_channel_id"} :
                    l.team_data[key] \in DOMAIN channels
                       => channels[l.team_data[key]].category = Ids.competitive_category

\* C9, the failing run: no call and no write failed, the edit returned success,
\* and the Competitive record it persisted has no private voice channel.
C9_Witness ==
    \E p \in Procs :
        LET l == wf[p] IN
        /\ EditDone(l) /\ l.result = "true" /\ l.failed = {}
        /\ l.team_type = "Community" /\ l.changes.type = "Competitive"
        /\ l.made = {}
        /\ l.current_team_name \in DOMAIN files.Competitive
        /\ files.Competitive[l.current_team_name].private_voice_channel_id = None

(***************************************************************************)
(* Properties of how the workflows call the external service.              *)
(***************************************************************************)
\* Role create/edit/delete, channel create/edit/delete, member role grant/revoke.
Mutations == {"create_role", "edit_role", "delete_role", "create_channel",
              "edit_channel", "delete_channel", "add_roles", "remove_roles"}

\* C11: every external mutation a workflow issues goes through
\* handle_rate_limit, and none ends on an unretried rate-limit response.
C11_MutationsThroughRateLimitHandler ==
    \A p \in Procs :
        LET l == wf[p] IN
        l.last.call \in Mutations => (l.last.wrapped /\ l.last.resp # "rl")

\* C11, the failing run: guild.create_role was awaited directly, one 429
\* answered it, and the create went to its failure handler without a retry.
C11_Witness ==
    \E p \in Procs :
        LET l == wf[p] IN
        /\ l.op = "create" /\ l.pc = "c_rb_msg"
        /\ l.last = [call |-> "create_role", wrapped |-> FALSE, resp |-> "rl",
                     slept |-> FALSE, unpaced |-> FALSE]
        /\ l.failed = {"create_role"}
        /\ faults = 1

\* C12: no external call of a workflow is issued right after a successful
\* external call without a sleep in between.
C12_PacingBetweenCalls ==
    \A p \in Procs : ~wf[p].last.unpaced

\* C12, the failing run: guild.create_role succeeded and the next progress
\* update was issued with no sleep after it.
C12_Witness ==
    \E p \in Procs :
        LET l == wf[p] IN
        /\ l.op = "create" /\ l.pc = "c_create_channel"
        /\ l.created_role \in DOMAIN roles
        /\ l.last.call = "edit_message" /\ l.last.resp = "ok"
        /\ l.last.unpaced
        /\ faults = 0

(***************************************************************************)
(* Properties of the failure paths of the three workflows.                *)
(***************************************************************************)
\* C17: when create returns failure and no write of a partition file failed,
\* both team partitions and the looking-for-team list, in memory and on disk,
\* are as they were when the create started.
C17_FailedCreateDiscardsWrites ==
    \A p \in Procs :
        LET l == wf[p] IN
        (CreateDone(l) /\ l.result = "false"
            /\ l.failed \cap {"write", "rollback_write"} = {})
            => /\ files.Community = l.start_files.Community
               /\ files.Competitive = l.start_files.Competitive
               /\ files.Teamsuche = l.start_files.Teamsuche
               /\ lft_members = l.start_lft

\* C17, the failing run: a member left the looking-for-team list while the roles
\* were assigned, a later call failed, the handler ran to its end and returned
\* False, and the member is still missing from the list and from its file.
C17_Witness ==
    \E p \in Procs :
        LET l == wf[p] IN
        /\ CreateDone(l) /\ l.result = "false" /\ FreshName(l)
        /\ l.failed \cap {"write", "rollback_write"} = {}
        /\ files.Community = l.start_files.Community
        /\ files.Competitive = l.start_files.Competitive
        /\ \E m \in l.members :
              /\ InList(m, l.start_lft)
              /\ ~InList(m, lft_members)
              /\ ~InList(m, files.Teamsuche)

\* The handler of create has channels left to delete.
ChannelsAwaitRollback(l) ==
    /\ l.op = "create" /\ l.pc = "c_rb_channel"
    /\ \E i \in l.idx..Len(l.created_channels) :
          l.created_channels[i][2] \in DOMAIN channels

\* C18: while the failure handler of create still has created channels to
\* delete, the role it created has not been deleted yet.
C18_ChannelsDeletedBeforeRole ==
    \A p \in Procs :
        LET l == wf[p] IN
        (ChannelsAwaitRollback(l) /\ l.created_role # None)
            => l.created_role \in DOMAIN roles

\* C18, the failing run: the handler deleted the role, and a channel the create
\* made is still live and waiting for its deletion.
C18_Witness ==
    \E p \in Procs :
        LET l == wf[p] IN
        /\ ChannelsAwaitRollback(l)
        /\ l.idx = 1
        /\ l.created_role # None
        /\ l.created_role \notin DOMAIN roles
        /\ "rollback_role" \notin l.failed

\* C19: a create for a type whose category is missing from the configuration
\* does not succeed and has created no role and no channel.
C19_MissingCategoryNoSideEffects ==
    \A p \in Procs :
        LET l == wf[p] IN
        (CreateDone(l) /\ FreshName(l) /\ GetCategory(l.team_type) = None)
            => /\ l.result # "true"
               /\ l.made = {}

\* C19, the failing run: the category is missing, every call succeeded, and the
\* create made a role before it looked for the category.
C19_Witness ==
    \E p \in Procs :
        LET l == wf[p] IN
        /\ CreateDone(l) /\ FreshName(l) /\ GetCategory(l.team_type) = None
        /\ l.result = "false"
        /\ l.created_role \in l.made
        /\ l.failed = {}

\* C20: every finished workflow returned True or False; none ended with an
\* exception leaving the coroutine.
C20_NoExceptionEscapes ==
    \A p \in Procs : wf[p].pc = "done" => wf[p].result \in {"true", "false"}

\* C20, the failing run: a channel creation failed, the first progress update
\* of the failure handler of create failed too, and that exception left the
\* coroutine before anything was rolled back.
C20_Witness ==
    \E p \in Procs :
        LET l == wf[p] IN
        /\ CreateDone(l) /\ l.result = "raised"
        /\ l.failed = {"create_channel", "rollback_notice"}
        /\ l.made \subseteq LiveObjects

(***************************************************************************)
(* Properties of the persisted team records.                               *)
(***************************************************************************)
\* C16: no record of the Community partition, on disk or in memory, has a
\* private voice channel id.
C16_PrivateVoiceOnlyCompetitive ==
    /\ \A n \in DOMAIN files.Community :
          files.Community[n].private_voice_channel_id = None
    /\ \A n \in DOMAIN teams.Community :
          teams.Community[n].private_voice_channel_id = None

\* C16 witness: an edit moved a Competitive team that had a private voice
\* channel to Community; the channel is deleted and the record written to the
\* Community partition has no private voice channel id.
C16_Witness ==
    \E p \in Procs :
        LET l == wf[p] IN
        /\ EditDone(l) /\ l.result = "true"
        /\ l.team_type = "Competitive" /\ l.current_team_type = "Community"
        /\ l.team_data.private_voice_channel_id # None
        /\ l.team_data.private_voice_channel_id \notin DOMAIN channels
        /\ l.current_team_name \in DOMAIN files.Community
        /\ files.Community[l.current_team_name].private_voice_channel_id = None

\* Every team record, on disk and in memory.
PersistedRecords ==
    UNION {{files[t][n] : n \in DOMAIN files[t]} \cup {teams[t][n] : n \in DOMAIN teams[t]}
              : t \in Types}

\* C14: in every persisted team record the captain, when one is set, is one of
\* the record's members.
C14_CaptainIsMember ==
    \A rec \in PersistedRecords :
        rec.captain_id # None => InList(rec.captain_id, rec.member_ids)

\* C14, the failing run: an edit made a user captain who was not on the team and
\* already held the captain role; the edit succeeded and the record it wrote
\* names the captain without listing them as a member.
C14_Witness ==
    \E p \in Procs :
        LET l == wf[p]
            rec == files[l.current_team_type][l.current_team_name] IN
        /\ EditDone(l) /\ l.result = "true" /\ l.failed = {}
        /\ l.changes.has_captain /\ l.changes.captain # None
        /\ ~InList(l.changes.captain, l.team_data.member_ids)
        /\ Ids.captain \in l.start_memberRoles[l.changes.captain]
        /\ l.changes.add_members = <<>> /\ l.changes.remove_members = <<>>
        /\ l.current_team_name \in DOMAIN files[l.current_team_type]
        /\ rec.captain_id = l.changes.captain
        /\ rec.member_ids = l.team_data.member_ids

\* C15: every persisted team record lists at most seven members.
C15_AtMostSevenMembers ==
    \A rec \in PersistedRecords : Len(rec.member_ids) <= MAX_TEAM_SIZE

\* C15, the failing run: one edit made an outsider captain and added as many
\* members as the view allowed; the edit succeeded and the record it wrote lists
\* eight members.
C15_Witness ==
    \E p \in Procs :
        LET l == wf[p]
            rec == files[l.current_team_type][l.current_team_name] IN
        /\ EditDone(l) /\ l.result = "true" /\ l.failed = {}
        /\ Len(l.team_data.member_ids) < MAX_TEAM_SIZE
        /\ l.changes.has_captain /\ l.changes.captain # None
        /\ ~InList(l.changes.captain, l.team_data.member_ids)
        /\ l.changes.add_members # <<>> /\ l.changes.remove_members = <<>>
        /\ l.current_team_name \in DOMAIN files[l.current_team_type]
        /\ Len(rec.member_ids) = MAX_TEAM_SIZE + 1
        /\ InList(rec.captain_id, rec.member_ids)

(***************************************************************************)
(* The resolver's grants.                                                  *)
(***************************************************************************)
\* The call of the resolver has returned.
Resolved == pw.pc \in {"cog", "main"}

\* The role the resolved class denies connect, when its key names a live role.
NoConnectPrincipal == RoleFromMainCfg(pw.cfg, LiveRoles, NoConnectKey(pw.channel_type))

\* C21: in the overwrites resolved for a voice channel the role configured
\* under the no-connect key is denied connect, whatever other keys of the
\* configuration name the same role.
C21_NoConnectOverrideWins ==
    (Resolved /\ IsVoice(pw.channel_type) /\ NoConnectPrincipal # None
         /\ (pw.pc = "cog" => StaffEntries(pw.team_type, pw.channel_type) # <<>>))
    => /\ NoConnectPrincipal \in DOMAIN pw.out
       /\ pw.out[NoConnectPrincipal].connect = Deny

\* The cog resolved a general voice channel under a configuration whose
\* "Mafia" key names the role of the "Rocket League" key, and that role may connect.
C21_Witness ==
    /\ pw.pc = "cog" /\ pw.channel_type = "voice_community" /\ pw.team_type = "Community"
    /\ pw.cfg.roles["Mafia"] = pw.cfg.roles["Rocket League"]
    /\ NoConnectPrincipal = StaffRoleId["Rocket League"]
    /\ pw.out[NoConnectPrincipal].connect = Allow

CreatedClass ==
    pw.pc = "cog" => StaffEntries(pw.team_type, pw.channel_type) # <<>>

C24_LayeringNeverDowngrades ==
    pw.pc = "main"
    => \A r \in DOMAIN pw.base :
          /\ r \in DOMAIN pw.out
          /\ pw.base[r].view_channel = Allow => pw.out[r].view_channel = Allow
          /\ pw.base[r].send_messages = Allow => pw.out[r].send_messages = Allow
          /\ pw.base[r].connect = Allow => pw.out[r].connect = Allow

\* The additional list names a role the staff entries already let connect and
\* manage, and a role with no entry yet: the first keeps its overwrite, the
\* second gets one.
C24_Witness ==
    /\ pw.pc = "main" /\ pw.channel_type = "voice_competitive"
    /\ pw.add_r_ids = <<StaffRoleId["Co-Lead"], ExtraRole>>
    /\ pw.base[StaffRoleId["Co-Lead"]] = ViewConnectManage
    /\ pw.out[StaffRoleId["Co-Lead"]] = ViewConnectManage
    /\ ExtraRole \notin DOMAIN pw.base
    /\ pw.out[ExtraRole] = ViewConnect

(***************************************************************************)
(* The looking-for-team and clan-member lists.                             *)
(***************************************************************************)
NoDuplicates(list) == Cardinality(ListSet(list)) = Len(list)

\* The run so far is two calls of the same add command, none of whose
\* add_roles failed.
TwoAdds(op) ==
    /\ Len(sync.log) = 2
    /\ \A i \in 1..2 : sync.log[i].op = op /\ ~sync.log[i].failed

BothBatches == sync.log[1].batch \cup sync.log[2].batch

\* C25: neither list ever holds a member twice, and adding one batch of
\* members and then another leaves the list, and the role's holders, as adding
\* the union of the two batches in one call would.
C25_AddsAreSetUnions ==
    sync.pc # "unused"
    => /\ NoDuplicates(lft_members) /\ NoDuplicates(clan_members)
       /\ TwoAdds("add_lft")
          => /\ ListSet(lft_members) =
                  ListSet(Extended(sync.start.lft,
                                   IdsAdded(sync.start.lft, Ids.teamsuche, sync.start.roles,
                                            BothBatches, {})))
             /\ memberRoles = Granted(Ids.teamsuche, sync.start.roles, BothBatches, {})
       /\ TwoAdds("add_clan")
          => /\ ListSet(clan_members) =
                  ListSet(Extended(sync.start.clan,
                                   IdsAdded(sync.start.clan, Ids.clan, sync.start.roles,
                                            BothBatches, {})))
             /\ memberRoles = Granted(Ids.clan, sync.start.roles, BothBatches, {})

\* Member 1 was listed without holding the role; it was added again, first
\* alone and then together with member 2, and the list holds each of them once.
C25_Witness ==
    /\ TwoAdds("add_lft")
    /\ sync.start.lft = <<1>> /\ Ids.teamsuche \notin sync.start.roles[1]
    /\ sync.log[1].batch = {1} /\ sync.log[2].batch = {1, 2}
    /\ lft_members = <<1, 2>>
    /\ Holders(Ids.teamsuche, memberRoles) = {1, 2}

LastLogged == sync.log[Len(sync.log)]

\* C26: after a reconciliation each list whose role resolves holds exactly the
\* members holding that role, and a reconciliation that follows another with
\* nothing in between writes no file.
C26_ReconciliationIdempotent ==
    (sync.log # <<>> /\ LastLogged.op = "on_ready")
    => /\ GetTeamsucheRole # None
          => ListSet(lft_members) = Holders(Ids.teamsuche, memberRoles)
       /\ GetClanMemberRole # None
          => ListSet(clan_members) = Holders(Ids.clan, memberRoles)
       /\ (Len(sync.log) >= 2 /\ sync.log[Len(sync.log) - 1].op = "on_ready")
          => LastLogged.writes = 0

\* Both lists differed from the roles' holders; the first reconciliation wrote
\* both, the second none.
C26_Witness ==
    /\ Len(sync.log) = 2
    /\ sync.log[1].op = "on_ready" /\ sync.log[1].writes = 2
    /\ sync.log[2].op = "on_ready" /\ sync.log[2].writes = 0
    /\ lft_members # sync.start.lft /\ clan_members # sync.start.clan

\* C27: a reconciliation grants and revokes no role and changes no role,
\* channel or team record, in memory or in the team files; it touches the two
\* lists and their files only.
C27_ReconciliationFrame ==
    [][(sync'.log # sync.log /\ sync'.log[Len(sync'.log)].op = "on_ready")
       => /\ UNCHANGED <<memberRoles, roles, channels, teams, main_config>>
          /\ files'.Community = files.Community
          /\ files'.Competitive = files.Competitive]_vars

\* A reconciliation replaced a looking-for-team list naming a member without
\* the role, and every member holds the roles held before it.
C27_Witness ==
    /\ Len(sync.log) = 1 /\ sync.log[1].op = "on_ready" /\ sync.log[1].writes = 1
    /\ sync.start.lft = <<1, 2>> /\ lft_members = <<2>>
    /\ memberRoles = sync.start.roles
    /\ files.Teamsuche = <<2>>

\* A list differs from the holders of its role.
Diverged ==
    \/ GetTeamsucheRole # None /\ ListSet(lft_members) # Holders(Ids.teamsuche, memberRoles)
    \/ GetClanMemberRole # None /\ ListSet(clan_members) # Holders(Ids.clan, memberRoles)

\* C28: the reconciliation keeps being run, so that whenever a list differs
\* from the holders of its role a run is still to come.
C28_DivergenceHasRunAhead ==
    (sync.pc # "unused" /\ Diverged) => sync.pc = "ready_pending"

\* on_ready has reconciled the lists, a role was then changed by hand, and no
\* run is scheduled.
C28_Witness ==
    /\ Len(sync.log) = 2
    /\ sync.log[1].op = "on_ready" /\ sync.log[2].op = "by_hand"
    /\ sync.pc = "ready" /\ Diverged

(***************************************************************************)
(* Delete without the team role; the record a create leaves.               *)
(***************************************************************************)
\* C29: a delete that found the record, whose role_id named no role of the
\* guild any more, and in which no call and no write failed, has passed the
\* RoleDelete stage, removed the entry from the partition in memory and on
\* file, and returns success.
C29_DeleteWithoutRoleSucceeds ==
    \A p \in Procs :
        LET l == wf[p] IN
        (DeleteDone(l) /\ Found(l) /\ l.team_data.role_id # None
            /\ l.team_role_obj = None /\ l.failed = {})
        => /\ l.result = "true"
           /\ {"RoleDelete", "ConfigRemove"} \subseteq l.stages
           /\ l.team_name \notin DOMAIN teams[l.team_type]
           /\ l.team_name \notin DOMAIN files[l.team_type]

\* The team's role was deleted by hand after the create; the delete removed
\* the channels and the entry and returned success.
C29_Witness ==
    \E p \in Procs :
        LET l == wf[p] IN
        /\ DeleteDone(l) /\ Found(l) /\ l.failed = {}
        /\ l.team_data.role_id # None /\ l.team_role_obj = None
        /\ l.team_data.role_id \notin DOMAIN roles
        /\ l.team_name \in DOMAIN l.start_files[l.team_type]
        /\ l.team_name \notin DOMAIN files[l.team_type]
        /\ channels = EmptyDict
        /\ l.result = "true"

\* members and captain of the create
Involved(l) == l.members \cup ({l.captain} \ {None})

\* C30: when a create returns success, the partition file of its type holds
\* under its name a record whose member_ids are the members and the captain,
\* each once, whose captain_id is the captain, whose role_id is the role the
\* create made and whose channel ids of the type are all set; and every member
\* or captain who held the looking-for-team role when the create began holds it
\* no longer and is absent from the looking-for-team list, in memory and on file.
C30_SuccessfulCreateRecord ==
    \A p \in Procs :
        LET l == wf[p] IN
        (CreateDone(l) /\ l.result = "true")
        => /\ l.team_name \in DOMAIN files[l.team_type]
           /\ LET rec == files[l.team_type][l.team_name] IN
                /\ ListSet(rec.member_ids) = Involved(l)
                /\ NoDuplicates(rec.member_ids)
                /\ rec.captain_id = l.captain
                /\ rec.role_id # None /\ rec.role_id \in l.made
                /\ rec.text_channel_id # None /\ rec.voice_channel_id # None
                /\ l.team_type = "Competitive" => rec.private_voice_channel_id # None
           /\ \A m \in Involved(l) :
                Ids.teamsuche \in l.start_memberRoles[m]
                => /\ Ids.teamsuche \notin memberRoles[m]
                   /\ ~InList(m, lft_members)
                   /\ ~InList(m, files.Teamsuche)

\* The captain was looking for a team; the create returned success with the
\* record on file and the role revoked, but the write of the shortened
\* looking-for-team list was lost and the file still names the captain.
C30_Witness ==
    \E p \in Procs :
        LET l == wf[p] IN
        /\ CreateDone(l) /\ l.result = "true" /\ l.failed = {}
        /\ l.captain = 1 /\ Ids.teamsuche \in l.start_memberRoles[1]
        /\ l.team_name \in DOMAIN files[l.team_type]
        /\ Ids.teamsuche \notin memberRoles[1]
        /\ ~InList(1, lft_members)
        /\ InList(1, files.Teamsuche)
(***************************************************************************)
(* The record of a team under creation, the outcome of a deletion, the     *)
(* records and members an edit touches.                                    *)
(***************************************************************************)
\* The positions of a create between its duplicate check and the write of
\* the record (src/mm_module.py:2093-2222).
BeforeConfigPersist ==
    {"c_progress_role", "c_create_role", "c_progress_channels", "c_create_channel",
     "c_progress_assign", "c_m_add", "c_m_lft", "c_m_capt", "c_progress_save"}

\* C38: while a create has passed its duplicate check and has not yet reached
\* the write of its record, neither the files nor the in-memory partitions
\* hold an entry for its name.
C38_NoRecordBeforePersist ==
    \A p \in Procs :
        (wf[p].op = "create" /\ wf[p].pc \in BeforeConfigPersist)
            => \A type \in Types :
                  /\ wf[p].team_name \notin DOMAIN files[type]
                  /\ wf[p].team_name \notin DOMAIN teams[type]

\* A create stands right before the write with its role, its channels and its
\* member assignments behind it.
C38_Witness ==
    \E p \in Procs :
        /\ wf[p].op = "create" /\ wf[p].pc = "c_progress_save"
        /\ wf[p].created_role \in DOMAIN roles
        /\ wf[p].created_channels # <<>>
        /\ wf[p].member_ids_for_json # <<>>

\* C39: when a delete that found the record returns success, the partition
\* file of its type holds no entry for the name, and neither the role nor any
\* channel the record names exists in the guild.
C39_SuccessMeansGone ==
    \A p \in Procs :
        (DeleteDone(wf[p]) /\ Found(wf[p]) /\ wf[p].result = "true")
            => /\ wf[p].team_name \notin DOMAIN files[wf[p].team_type]
               /\ wf[p].team_data.role_id \notin DOMAIN roles
               /\ \A id \in ListSet(ChannelIdsToDelete(wf[p].team_data)) :
                        id \notin DOMAIN channels

\* A delete of a recorded team has returned success.
C39_Witness ==
    \E p \in Procs :
        /\ DeleteDone(wf[p]) /\ Found(wf[p]) /\ wf[p].result = "true"
        /\ wf[p].team_name \in DOMAIN wf[p].start_files[wf[p].team_type]

\* The members an edit put into member_ids who were not in the record before.
NewlyPresent(l) == ListSet(l.working_data.member_ids) \ ListSet(l.team_data.member_ids)

\* C36: after a successful edit every member who is newly in member_ids, added
\* as a member or as the new captain, holds the team role, does not hold the
\* looking-for-team role and is absent from the looking-for-team list, in
\* memory and on file.
C36_NewMembersSettled ==
    \A p \in Procs :
        (EditDone(wf[p]) /\ wf[p].result = "true")
            => \A m \in NewlyPresent(wf[p]) :
                  /\ wf[p].team_data.role_id \in memberRoles[m]
                  /\ GetTeamsucheRole = None \/ GetTeamsucheRole \notin memberRoles[m]
                  /\ ~InList(m, lft_members)
                  /\ ~InList(m, files.Teamsuche)

\* A successful edit brought in somebody who held the looking-for-team role
\* and was on the list when the edit began.
C36_Witness ==
    \E p \in Procs :
        /\ EditDone(wf[p]) /\ wf[p].result = "true"
        /\ \E m \in NewlyPresent(wf[p]) :
              /\ Ids.teamsuche \in wf[p].start_memberRoles[m]
              /\ InList(m, wf[p].start_lft)

\* C35: while an edit runs and once it is over, every record that the
\* partition files held when it began under another key than the edited
\* team's is still there, unchanged.
C35_OtherRecordsUntouched ==
    \A p \in Procs :
        wf[p].op = "edit"
            => \A type \in Types :
                  \A name \in DOMAIN wf[p].start_files[type] :
                      (name # wf[p].team_name \/ type # wf[p].team_type)
                          => /\ name \in DOMAIN files[type]
                             /\ files[type][name] = wf[p].start_files[type][name]

\* An edit that asked for a name another team of the target partition held
\* has reached its end.
C35_Witness ==
    \E p \in Procs :
        /\ EditDone(wf[p]) /\ wf[p].persisted
        /\ wf[p].current_team_name # wf[p].team_name
        /\ wf[p].current_team_name \in DOMAIN wf[p].start_files[wf[p].current_team_type]

\* The step is a call of remove_members_from_lft or remove_members_from_clan.
RemovalStep ==
    /\ Len(sync'.log) = Len(sync.log) + 1
    /\ sync'.log[Len(sync'.log)].op \in {"remove_lft", "remove_clan"}

\* Every id that was in `before` and is no longer in `after` belongs to a
\* member who does not hold the role (None when the role is not configured).
DroppedOnlyWithoutRole(before, after, role, member_roles) ==
    \A m \in ListSet(before) \ ListSet(after) : role \notin member_roles[m]

\* C37: a call of remove_members_from_lft or remove_members_from_clan drops
\* from the list, in memory and on file, only members who no longer hold the
\* role when it returns; a member whose revocation failed stays listed.
C37_RemovedOnlyWhenRevoked ==
    [][RemovalStep =>
         /\ DroppedOnlyWithoutRole(lft_members, lft_members', GetTeamsucheRole, memberRoles')
         /\ DroppedOnlyWithoutRole(files.Teamsuche, files'.Teamsuche, GetTeamsucheRole,
                                   memberRoles')
         /\ DroppedOnlyWithoutRole(clan_members, clan_members', GetClanMemberRole, memberRoles')
         /\ DroppedOnlyWithoutRole(files.Clanmember, files'.Clanmember, GetClanMemberRole,
                                   memberRoles')]_vars

\* A removal in which a revocation failed for a listed member has returned.
C37_Witness ==
    /\ sync.log # <<>>
    /\ LastLogged.op \in {"remove_lft", "remove_clan"}
    /\ LastLogged.failed
    /\ \E m \in LastLogged.batch :
          \/ LastLogged.op = "remove_lft" /\ Ids.teamsuche \in memberRoles[m]
                /\ InList(m, sync.start.lft)
          \/ LastLogged.op = "remove_clan" /\ Ids.clan \in memberRoles[m]
                /\ InList(m, sync.start.clan)

\* A workflow has been started and has not returned.
Running(p) == ~Free(p)

\* C31: every create, edit or delete that was started returns, with success,
\* with failure, or with the failure of one of its own messages propagating to
\* the caller, whatever calls fail on the way.
C31_EveryWorkflowReturns ==
    \A p \in Procs :
        Running(p) ~> (wf[p].pc = "done" /\ wf[p].result \in {"true", "false", "raised"})

\* A workflow in which two calls failed has returned.
C31_Witness ==
    \E p \in Procs :
        /\ wf[p].pc = "done" /\ wf[p].result \in {"true", "false", "raised"}
        /\ faults = MaxFaults
        /\ Cardinality(wf[p].failed) = MaxFaults

(***************************************************************************)
(* Two workflows at a time.                                                *)
(***************************************************************************)
\* The workflow returned and none of its calls or writes failed.
CleanRun(l) == l.pc = "done" /\ l.failed = {}

\* Some record of the partition files names the role or channel.
Referenced(id) ==
    \E type \in Types : \E name \in DOMAIN files[type] :
        LET r == files[type][name] IN
        id \in {r.role_id, r.text_channel_id, r.voice_channel_id, r.private_voice_channel_id}

\* C32: when a create and a delete of another name in the same partition have
\* both returned, the create with success and neither with a failed call or
\* write, the record the create wrote is in the partition file and in the
\* in-memory partition, however the two were interleaved.
C32_CreateSurvivesDelete ==
    \A p \in DOMAIN wf, q \in DOMAIN wf :
        (/\ CreateDone(wf[p]) /\ wf[p].result = "true" /\ CleanRun(wf[p])
         /\ DeleteDone(wf[q]) /\ Found(wf[q]) /\ CleanRun(wf[q])
         /\ wf[p].team_name # wf[q].team_name
         /\ wf[p].team_type = wf[q].team_type)
            => /\ wf[p].team_name \in DOMAIN files[wf[p].team_type]
               /\ wf[p].team_name \in DOMAIN teams[wf[p].team_type]

\* A create and a delete in the same partition ran side by side and both
\* returned success: each began before the other wrote the file.
C32_Witness ==
    \E p \in DOMAIN wf, q \in DOMAIN wf :
        /\ CreateDone(wf[p]) /\ wf[p].result = "true" /\ CleanRun(wf[p])
        /\ DeleteDone(wf[q]) /\ wf[q].result = "true" /\ CleanRun(wf[q])
        /\ wf[p].team_type = wf[q].team_type
        /\ wf[q].team_name \in DOMAIN wf[p].start_files[wf[p].team_type]
        /\ wf[p].team_name \notin DOMAIN wf[q].start_files[wf[q].team_type]
        /\ wf[q].team_name # wf[p].team_name

\* C33: of two creates of the same name at most one returns success, and once
\* both have returned without a failed call or write, every role and channel
\* either of them made and that still exists is named by a record of the
\* partition files.
C33_OneCreateWins ==
    \A p \in DOMAIN wf, q \in DOMAIN wf :
        (/\ p # q
         /\ CreateDone(wf[p]) /\ CleanRun(wf[p])
         /\ CreateDone(wf[q]) /\ CleanRun(wf[q])
         /\ wf[p].team_name = wf[q].team_name)
            => /\ ~(wf[p].result = "true" /\ wf[q].result = "true")
               /\ \A id \in (wf[p].made \cup wf[q].made) \cap LiveObjects : Referenced(id)

\* Two creates of the same name ran side by side: the second began before the
\* first wrote its record, and both have returned.
C33_Witness ==
    \E p \in DOMAIN wf, q \in DOMAIN wf :
        /\ p # q
        /\ CreateDone(wf[p]) /\ CleanRun(wf[p])
        /\ CreateDone(wf[q]) /\ CleanRun(wf[q])
        /\ wf[p].team_name = wf[q].team_name
        /\ FreshName(wf[p]) /\ FreshName(wf[q])
        /\ wf[p].made # {} /\ wf[q].made # {}

\* C34: once the delete of a recorded team has returned success with no failed
\* call or write, the partition files hold no record under the team's name
\* unless a create of that name has been started; an edit of the team that was
\* under way during the delete does not bring the record back.
C34_DeletedStaysDeleted ==
    \A q \in DOMAIN wf :
        (/\ DeleteDone(wf[q]) /\ Found(wf[q]) /\ wf[q].result = "true" /\ CleanRun(wf[q])
         /\ \A p \in DOMAIN wf :
               ~(wf[p].op = "create" /\ wf[p].team_name = wf[q].team_name))
            => \A type \in Types : wf[q].team_name \notin DOMAIN files[type]

\* An edit of the team was under way when the delete of the team returned
\* success, and has written its record since.
C34_Witness ==
    \E p \in DOMAIN wf, q \in DOMAIN wf :
        /\ DeleteDone(wf[q]) /\ Found(wf[q]) /\ wf[q].result = "true" /\ CleanRun(wf[q])
        /\ wf[p].op = "edit" /\ wf[p].team_name = wf[q].team_name
        /\ wf[p].team_type = wf[q].team_type
        /\ wf[p].persisted
        /\ wf[q].team_name \in DOMAIN wf[p].start_files[wf[p].team_type]
        /\ wf[q].team_name \in DOMAIN wf[q].start_files[wf[q].team_type]
====
